---- MODULE Spec2Model ----
(***************************************************************************)
(* Model of the PassOP backend encryption layer                            *)
(* (backend/src/utils/crypto.js): key resolution, AES-256-GCM encrypt /    *)
(* decrypt of credential strings, and the password based wrapper.          *)
(*                                                                         *)
(* JavaScript values are modelled structurally:                            *)
(*   - a JS string is the sequence of its UTF-16 code units;               *)
(*   - a Buffer is a sequence of bytes 0..255;                             *)
(*   - an object is a function from its own property names to values, so   *)
(*     that `o.p === undefined` is `"p" \notin DOMAIN o`;                  *)
(*   - null, undefined, numbers, strings and objects passed to decrypt     *)
(*     are tagged records [t |-> type, v |-> payload].                     *)
(*                                                                         *)
(* Node's crypto primitives are library code; they are modelled by their   *)
(* contract.  AES-GCM is a stream cipher (ciphertext = plaintext XOR       *)
(* keystream(key, iv)) with an ideal authentication tag: the decipher      *)
(* accepts (key, iv, ciphertext, tag) exactly when that tuple was produced *)
(* by a cipher for a record that is still held.  PBKDF2 is an ideal        *)
(* (injective) function of the password bytes and the salt.                *)
(* crypto.randomBytes is a nondeterministic choice.                        *)
(*                                                                         *)
(* The specifications share the variables:                                 *)
(*   Spec         one encrypt or encryptWithPassword call followed by one  *)
(*                decrypt or decryptWithPassword call on the record, as it *)
(*                is or altered;                                           *)
(*   SpecKey      getKey under every configuration, and a record that is   *)
(*                encrypted in one run of the process and decrypted in the *)
(*                next;                                                    *)
(*   SpecCompare  secureCompare;                                           *)
(*   SpecStore    the credential store behind the HTTP routes;             *)
(*   SpecAuth     login and the verification of bearer tokens;             *)
(*   SpecCalls    two crypto calls in flight in one process;               *)
(*   SpecConfig   crypto calls between changes of the environment;         *)
(*   SpecIdle     the idle timeout of the web client;                      *)
(*   SpecDb       the database connection under overlapping calls.         *)
(***************************************************************************)
EXTENDS Integers, Sequences, FiniteSets, TLC

\* ------------------------------------------------------------------------
\* Bounds of the model
\* ------------------------------------------------------------------------
\* longest plaintext, in UTF-16 code units
MaxLen == 2
\* number of distinct outcomes of one crypto.randomBytes call
NumRandom == 2

\* ------------------------------------------------------------------------
\* Program constants (crypto.js:22-28)
\* ------------------------------------------------------------------------
ALGORITHM == "aes-256-gcm"
KEY_LENGTH == 32
IV_LENGTH == 12
TAG_LENGTH == 16
SALT_LENGTH == 32

\* ------------------------------------------------------------------------
\* State
\* ------------------------------------------------------------------------
\* the most recent call: operation, arguments, outcome, effects, and the
\* run of the process that made it
VARIABLE last

\* ------------------------------------------------------------------------
\* Bytes
\* ------------------------------------------------------------------------
RECURSIVE Xor(_, _)
\* bitwise exclusive or of two naturals
Xor(a, b) ==
  IF a = 0 THEN b
  ELSE IF b = 0 THEN a
  ELSE (((a % 2) + (b % 2)) % 2) + 2 * Xor(a \div 2, b \div 2)

RECURSIVE SumSeq(_)
SumSeq(q) == IF q = <<>> THEN 0 ELSE (Head(q) + 31 * SumSeq(Tail(q))) % 65521

\* ------------------------------------------------------------------------
\* UTF-8: String -> Buffer (cipher.update(String(plaintext), 'utf8')) and
\* Buffer -> String (decrypted.toString('utf8'))
\* ------------------------------------------------------------------------
IsHighSurrogate(u) == u >= 55296 /\ u <= 56319
IsLowSurrogate(u) == u >= 56320 /\ u <= 57343
IsSurrogate(u) == u >= 55296 /\ u <= 57343

\* U+FFFD REPLACEMENT CHARACTER
REPLACEMENT == 65533

\* UTF-8 bytes of one code point
Utf8OfCodePoint(cp) ==
  IF cp < 128 THEN <<cp>>
  ELSE IF cp < 2048 THEN <<192 + (cp \div 64), 128 + (cp % 64)>>
  ELSE IF cp < 65536 THEN
    <<224 + (cp \div 4096), 128 + ((cp \div 64) % 64), 128 + (cp % 64)>>
  ELSE <<240 + (cp \div 262144), 128 + ((cp \div 4096) % 64),
         128 + ((cp \div 64) % 64), 128 + (cp % 64)>>

\* the bytes a 'latin1' encoding would give: the low byte of each code unit
Latin1Encode(s) == [i \in 1..Len(s) |-> s[i] % 256]

RECURSIVE Utf8Encode(_)
\* a surrogate pair is one code point; an unpaired surrogate is written as
\* U+FFFD
Utf8Encode(s) ==
  IF s = <<>> THEN <<>>
  ELSE LET u == Head(s) IN
    IF IsHighSurrogate(u) /\ Len(s) >= 2 /\ IsLowSurrogate(s[2])
    THEN Utf8OfCodePoint(65536 + (u - 55296) * 1024 + (s[2] - 56320))
           \o Utf8Encode(Tail(Tail(s)))
    ELSE IF IsSurrogate(u)
    THEN Utf8OfCodePoint(REPLACEMENT) \o Utf8Encode(Tail(s))
    ELSE Utf8OfCodePoint(u) \o Utf8Encode(Tail(s))

IsCont(q, i) == i <= Len(q) /\ q[i] >= 128 /\ q[i] <= 191

\* UTF-16 code units of one code point
Utf16OfCodePoint(cp) ==
  IF cp < 65536 THEN <<cp>>
  ELSE <<55296 + ((cp - 65536) \div 1024), 56320 + ((cp - 65536) % 1024)>>

RECURSIVE Utf8Decode(_)
\* a byte that starts no well-formed sequence decodes to U+FFFD
Utf8Decode(q) ==
  IF q = <<>> THEN <<>>
  ELSE LET b == Head(q) IN
    IF b < 128 THEN <<b>> \o Utf8Decode(Tail(q))
    ELSE IF b >= 194 /\ b <= 223 /\ IsCont(q, 2)
    THEN <<(b - 192) * 64 + (q[2] - 128)>> \o Utf8Decode(SubSeq(q, 3, Len(q)))
    ELSE IF b >= 224 /\ b <= 239 /\ IsCont(q, 2) /\ IsCont(q, 3)
            /\ (b - 224) * 4096 + (q[2] - 128) * 64 + (q[3] - 128) >= 2048
            /\ ~IsSurrogate((b - 224) * 4096 + (q[2] - 128) * 64 + (q[3] - 128))
    THEN <<(b - 224) * 4096 + (q[2] - 128) * 64 + (q[3] - 128)>>
           \o Utf8Decode(SubSeq(q, 4, Len(q)))
    ELSE IF b >= 240 /\ b <= 244 /\ IsCont(q, 2) /\ IsCont(q, 3) /\ IsCont(q, 4)
            /\ (b - 240) * 262144 + (q[2] - 128) * 4096 + (q[3] - 128) * 64
                 + (q[4] - 128) >= 65536
            /\ (b - 240) * 262144 + (q[2] - 128) * 4096 + (q[3] - 128) * 64
                 + (q[4] - 128) <= 1114111
    THEN Utf16OfCodePoint((b - 240) * 262144 + (q[2] - 128) * 4096
                            + (q[3] - 128) * 64 + (q[4] - 128))
           \o Utf8Decode(SubSeq(q, 5, Len(q)))
    ELSE <<REPLACEMENT>> \o Utf8Decode(Tail(q))

\* ------------------------------------------------------------------------
\* base64: buf.toString('base64') and Buffer.from(str, 'base64')
\* A base64 string is a JS string: the sequence of its character codes.
\* ------------------------------------------------------------------------
\* character of a 6-bit value
B64Char(n) ==
  IF n < 26 THEN 65 + n
  ELSE IF n < 52 THEN 97 + (n - 26)
  ELSE IF n < 62 THEN 48 + (n - 52)
  ELSE IF n = 62 THEN 43 ELSE 47

\* 6-bit value of a character, -1 when the character is not in the alphabet
\* (the decoder also accepts the URL-safe '-' and '_')
B64Val(c) ==
  IF c >= 65 /\ c <= 90 THEN c - 65
  ELSE IF c >= 97 /\ c <= 122 THEN c - 97 + 26
  ELSE IF c >= 48 /\ c <= 57 THEN c - 48 + 52
  ELSE IF c = 43 \/ c = 45 THEN 62
  ELSE IF c = 47 \/ c = 95 THEN 63
  ELSE -1

PAD == 61

\* buf.toString('base64'): every 3 bytes give 4 characters, the last group
\* is padded with '='
Base64Encode(q) ==
  LET n == Len(q)
      byte(i) == IF i <= n THEN q[i] ELSE 0
  IN [j \in 1..(4 * ((n + 2) \div 3)) |->
        LET k == 3 * ((j - 1) \div 4)
            pos == (j - 1) % 4
        IN IF pos = 0 THEN B64Char(byte(k + 1) \div 4)
           ELSE IF pos = 1
           THEN B64Char((byte(k + 1) % 4) * 16 + (byte(k + 2) \div 16))
           ELSE IF pos = 2
           THEN IF k + 2 > n THEN PAD
                ELSE B64Char((byte(k + 2) % 16) * 4 + (byte(k + 3) \div 64))
           ELSE IF k + 3 > n THEN PAD ELSE B64Char(byte(k + 3) % 64)]

IsB64Char(c) == B64Val(c) >= 0

\* the 6-bit values of a base64 string: decoding stops at the first '=',
\* characters outside the alphabet are skipped
B64Sextets(s) ==
  LET pads == {i \in 1..Len(s) : s[i] = PAD}
      cut == IF pads = {} THEN Len(s)
             ELSE (CHOOSE i \in pads : \A j \in pads : i <= j) - 1
      kept == SelectSeq(SubSeq(s, 1, cut), IsB64Char)
  IN [i \in 1..Len(kept) |-> B64Val(kept[i])]

\* 4 values give 3 bytes; 2 or 3 trailing values give 1 or 2 bytes
B64Bytes(x) ==
  [i \in 1..((6 * Len(x)) \div 8) |->
     LET k == 4 * ((i - 1) \div 3)
         r == (i - 1) % 3
     IN IF r = 0 THEN x[k + 1] * 4 + (x[k + 2] \div 16)
        ELSE IF r = 1 THEN (x[k + 2] % 16) * 16 + (x[k + 3] \div 4)
        ELSE (x[k + 3] % 4) * 64 + x[k + 4]]

\* Buffer.from(s, 'base64')
Base64Decode(s) == B64Bytes(B64Sextets(s))

\* ------------------------------------------------------------------------
\* JavaScript values
\* ------------------------------------------------------------------------
Null == [t |-> "null"]
Undefined == [t |-> "undefined"]
Str(s) == [t |-> "string", v |-> s]
Num(n) == [t |-> "number", v |-> n]
Obj(o) == [t |-> "object", v |-> o]

\* !x
Falsy(x) ==
  \/ x.t \in {"null", "undefined"}
  \/ x.t = "string" /\ x.v = <<>>
  \/ x.t = "number" /\ x.v = 0

\* o.p is a non-empty string: the truthiness of a string-valued property
HasProp(o, p) == p \in DOMAIN o /\ o[p] # <<>>

\* x || ''
OrEmpty(x) == IF Falsy(x) THEN Str(<<>>) ELSE x

\* outcome of a call
Ret(v) == [kind |-> "return", val |-> v]
Throw(m) == [kind |-> "throw", msg |-> m]

\* what a call did besides computing its result: the number of getKey,
\* pbkdf2Sync, createCipheriv and createDecipheriv calls and of console.warn
\* and console.error lines
NoFx == [getKey |-> 0, deriveKey |-> 0, cipher |-> 0, decipher |-> 0,
         warn |-> 0, error |-> 0]
AddFx(f, g) == [k \in DOMAIN f |-> f[k] + g[k]]

\* ------------------------------------------------------------------------
\* Keys.  A key is either the raw bytes of a Buffer or the PBKDF2 output
\* for (password bytes, salt); pbkdf2Sync is asked for KEY_LENGTH bytes.
\* ------------------------------------------------------------------------
RawKey(bytes) == [kind |-> "raw", bytes |-> bytes]

\* crypto.js:36-44
deriveKey(password, salt) ==
  [kind |-> "pbkdf2", pw |-> Utf8Encode(password), salt |-> salt]

KeyLen(key) == IF key.kind = "raw" THEN Len(key.bytes) ELSE KEY_LENGTH

KeyNum(key) ==
  IF key.kind = "raw" THEN SumSeq(key.bytes)
  ELSE (SumSeq(key.pw) + 7 * SumSeq(key.salt) + 1) % 65521

\* a salt drawn anew by every run of the process
PerRunSalt == [i \in 1..32 |-> (53 * last.run + 7 * i) % 256]

\* sha256('passop_encryption_salt_v1') (crypto.js:75-78)
DeterministicSalt ==
  <<82, 150, 45, 145, 81, 22, 79, 173, 182, 3, 197, 81, 105, 128, 25, 44,
    14, 109, 143, 175, 80, 182, 243, 150, 175, 111, 163, 231, 12, 55, 128, 184>>

\* Buffer.from('passop_default_salt_v1_insecure') (crypto.js:85)
FallbackSalt ==
  <<112, 97, 115, 115, 111, 112, 95, 100, 101, 102, 97, 117, 108, 116, 95,
    115, 97, 108, 116, 95, 118, 49, 95, 105, 110, 115, 101, 99, 117, 114, 101>>

\* 'passop_default_secret_insecure' (crypto.js:86)
FallbackSecret ==
  <<112, 97, 115, 115, 111, 112, 95, 100, 101, 102, 97, 117, 108, 116, 95,
    115, 101, 99, 114, 101, 116, 95, 105, 110, 115, 101, 99, 117, 114, 101>>

\* getKey with the SECRET / AUTH_SECRET branch tried before ENCRYPTION_KEY
getKeySecretFirst(env) ==
  LET hasEnvKey == HasProp(env, "ENCRYPTION_KEY")
      key == IF hasEnvKey THEN Base64Decode(env["ENCRYPTION_KEY"]) ELSE <<>>
      secret == IF HasProp(env, "SECRET") THEN env["SECRET"]
                ELSE IF "AUTH_SECRET" \in DOMAIN env THEN env["AUTH_SECRET"]
                ELSE <<>>
  IN IF Len(secret) >= 8
     THEN [key |-> deriveKey(secret, DeterministicSalt),
           fx |-> [NoFx EXCEPT !.getKey = 1, !.deriveKey = 1]]
     ELSE IF hasEnvKey /\ Len(key) = KEY_LENGTH
     THEN [key |-> RawKey(key), fx |-> [NoFx EXCEPT !.getKey = 1]]
     ELSE [key |-> deriveKey(FallbackSecret, FallbackSalt),
           fx |-> [NoFx EXCEPT !.getKey = 1, !.deriveKey = 1, !.warn = 1]]

\* getKey without the key.length === KEY_LENGTH test
getKeyAnyLength(env) ==
  LET secret == IF HasProp(env, "SECRET") THEN env["SECRET"]
                ELSE IF "AUTH_SECRET" \in DOMAIN env THEN env["AUTH_SECRET"]
                ELSE <<>>
  IN IF HasProp(env, "ENCRYPTION_KEY")
     THEN [key |-> RawKey(Base64Decode(env["ENCRYPTION_KEY"])),
           fx |-> [NoFx EXCEPT !.getKey = 1]]
     ELSE IF Len(secret) >= 8
     THEN [key |-> deriveKey(secret, DeterministicSalt),
           fx |-> [NoFx EXCEPT !.getKey = 1, !.deriveKey = 1]]
     ELSE [key |-> deriveKey(FallbackSecret, FallbackSalt),
           fx |-> [NoFx EXCEPT !.getKey = 1, !.deriveKey = 1, !.warn = 1]]

\* crypto.js:55-87; env is process.env, a function from the names of the
\* variables that are set to their string values
getKey(env) ==
  LET hasEnvKey == HasProp(env, "ENCRYPTION_KEY")
      key == IF hasEnvKey THEN Base64Decode(env["ENCRYPTION_KEY"]) ELSE <<>>
      fell == IF hasEnvKey THEN 1 ELSE 0
      hasSecret == HasProp(env, "SECRET") \/ "AUTH_SECRET" \in DOMAIN env
      secret == IF HasProp(env, "SECRET") THEN env["SECRET"]
                ELSE IF "AUTH_SECRET" \in DOMAIN env THEN env["AUTH_SECRET"]
                ELSE <<>>
  IN IF hasEnvKey /\ Len(key) = KEY_LENGTH
     THEN [key |-> RawKey(key), fx |-> [NoFx EXCEPT !.getKey = 1]]
     ELSE IF hasSecret /\ secret # <<>> /\ Len(secret) >= 8
     THEN [key |-> deriveKey(secret, DeterministicSalt),
           fx |-> [NoFx EXCEPT !.getKey = 1, !.deriveKey = 1, !.warn = fell]]
     ELSE [key |-> deriveKey(FallbackSecret, FallbackSalt),
           fx |-> [NoFx EXCEPT !.getKey = 1, !.deriveKey = 1,
                               !.warn = fell + 1]]

\* options.key || getKey()  (crypto.js:117, 175)
ResolveKey(options, env) ==
  IF "key" \in DOMAIN options THEN [key |-> options["key"], fx |-> NoFx]
  ELSE getKey(env)

\* ------------------------------------------------------------------------
\* AES-256-GCM (crypto.createCipheriv / createDecipheriv)
\* ------------------------------------------------------------------------
\* i-th byte of the CTR keystream that starts from counter block c
KeyStream(c, i) == (c + 29 * i) % 256

\* cipher.update + cipher.final, and the same for the decipher: CTR mode is
\* its own inverse
GcmCrypt(key, iv, data) ==
  LET c == KeyNum(key) + 5 * SumSeq(iv)
  IN [i \in 1..Len(data) |-> Xor(data[i], KeyStream(c, i))]

\* cipher.getAuthTag(): TAG_LENGTH bytes bound to key, iv and ciphertext
GcmTag(key, iv, ct) ==
  LET h == 3 * KeyNum(key) + 5 * SumSeq(iv) + 7 * SumSeq(ct)
  IN [j \in 1..TAG_LENGTH |-> (h + 13 * j) % 256]

\* decipher.final() accepts the tag: ideal authentication, only a tuple
\* that a cipher produced (sealed) verifies
GcmVerify(key, iv, ct, tag, sealed) ==
  [key |-> key, iv |-> iv, ct |-> ct, tag |-> tag] \in sealed

\* ------------------------------------------------------------------------
\* encrypt / decrypt (crypto.js:112-210)
\* ------------------------------------------------------------------------
\* error messages
MsgDecryptFailed == "Decryption failed: data may be corrupted or tampered"
MsgInvalidFormat == "Invalid encrypted object format"
MsgMissingSalt == "Missing salt for password-based decryption"
MsgIvLength == "Invalid IV length"
MsgTagLength == "Invalid tag length"
MsgAuth == "Unsupported state or unable to authenticate data"
MsgArgType == "The first argument must be of type string"

\* String(plaintext) alone, without the normalisation of null and undefined
PlainOfString(plaintext) ==
  IF plaintext.t = "null" THEN <<110, 117, 108, 108>>
  ELSE IF plaintext.t = "undefined"
  THEN <<117, 110, 100, 101, 102, 105, 110, 101, 100>>
  ELSE plaintext.v

\* the plaintext that is encrypted: null and undefined become '', a string
\* is itself (crypto.js:113-115, String(plaintext) at 129)
PlainOf(plaintext) ==
  IF plaintext.t \in {"null", "undefined"} THEN <<>> ELSE plaintext.v

\* crypto.js:112-142; iv is the outcome of crypto.randomBytes(IV_LENGTH).
\* seal is the tuple the cipher authenticated.
encrypt(plaintext, options, env, iv) ==
  LET kr == ResolveKey(options, env)
      encrypted == GcmCrypt(kr.key, iv, Utf8Encode(PlainOf(plaintext)))
      tag == GcmTag(kr.key, iv, encrypted)
  IN [res |-> Ret(Obj([enc |-> ALGORITHM,
                       iv |-> Base64Encode(iv),
                       tag |-> Base64Encode(tag),
                       ct |-> Base64Encode(encrypted)])),
      fx |-> AddFx(kr.fx, [NoFx EXCEPT !.cipher = 1]),
      seal |-> [key |-> kr.key, iv |-> iv, ct |-> encrypted, tag |-> tag]]

\* iv.length !== IV_LENGTH is false (crypto.js:183)
IvLengthOk(iv) == Len(iv) = IV_LENGTH

\* no check of the tag length
TagLengthAny(tag) == TRUE

\* tag.length !== TAG_LENGTH is false (crypto.js:186)
TagLengthOk(tag) == Len(tag) = TAG_LENGTH

\* the body of the try block, crypto.js:175-204.  Buffer.from(undefined)
\* raises a TypeError.
decryptTry(o, options, env, sealed) ==
  LET kr == ResolveKey(options, env)
      iv == Base64Decode(o["iv"])
      tag == Base64Decode(o["tag"])
      ciphertext == Base64Decode(o["ct"])
  IN IF ~({"iv", "tag", "ct"} \subseteq DOMAIN o)
     THEN [res |-> Throw(MsgArgType), fx |-> kr.fx]
     ELSE IF ~IvLengthOk(iv) THEN [res |-> Throw(MsgIvLength), fx |-> kr.fx]
     ELSE IF ~TagLengthOk(tag)
     THEN [res |-> Throw(MsgTagLength), fx |-> kr.fx]
     ELSE IF GcmVerify(kr.key, iv, ciphertext, tag, sealed)
     THEN [res |-> Ret(Utf8Decode(GcmCrypt(kr.key, iv, ciphertext))),
           fx |-> AddFx(kr.fx, [NoFx EXCEPT !.decipher = 1])]
     ELSE [res |-> Throw(MsgAuth),
           fx |-> AddFx(kr.fx, [NoFx EXCEPT !.decipher = 1])]

\* a catch block that logs the error and degrades to ''
CatchSwallow(t) ==
  IF t.res.kind = "throw"
  THEN [res |-> Ret(<<>>), fx |-> AddFx(t.fx, [NoFx EXCEPT !.error = 1])]
  ELSE t

\* a catch block that logs the error and throws it again as it is
CatchRethrow(t) ==
  IF t.res.kind = "throw"
  THEN [res |-> t.res, fx |-> AddFx(t.fx, [NoFx EXCEPT !.error = 1])]
  ELSE t

\* the catch block, crypto.js:205-209: whatever was raised is logged and
\* replaced by one error
CatchDecrypt(t) ==
  IF t.res.kind = "throw"
  THEN [res |-> Throw(MsgDecryptFailed),
        fx |-> AddFx(t.fx, [NoFx EXCEPT !.error = 1])]
  ELSE t

\* a typeof comparison that never matches
IsPlainStringNever(encObj) == FALSE

\* typeof encObj === 'string' (crypto.js:160)
IsPlainString(encObj) == encObj.t = "string"

\* a test for undefined fields only, which lets '' through
FieldsUndefined(o) == ~({"iv", "tag", "ct"} \subseteq DOMAIN o)

\* !encObj.iv || !encObj.tag || !encObj.ct (crypto.js:169)
FieldsMissing(o) ==
  ~HasProp(o, "iv") \/ ~HasProp(o, "tag") \/ ~HasProp(o, "ct")

\* crypto.js:153-210
decrypt(encObj, options, env, sealed) ==
  IF Falsy(encObj) THEN [res |-> Ret(<<>>), fx |-> NoFx]
  ELSE IF IsPlainString(encObj) THEN [res |-> Ret(encObj.v), fx |-> NoFx]
  ELSE IF encObj.t # "object"
  THEN [res |-> Throw(MsgInvalidFormat), fx |-> NoFx]
  ELSE IF FieldsMissing(encObj.v)
  THEN [res |-> Ret(<<>>), fx |-> [NoFx EXCEPT !.warn = 1]]
  ELSE CatchDecrypt(decryptTry(encObj.v, options, env, sealed))

\* ------------------------------------------------------------------------
\* password based wrapper (crypto.js:221-243)
\* ------------------------------------------------------------------------
\* encryptWithPassword returning the record of encrypt as it is
encryptWithPasswordNoSalt(plaintext, password, env, salt, iv) ==
  LET key == deriveKey(password, salt)
      result == encrypt(plaintext, [key |-> key], env, iv)
  IN [res |-> result.res,
      fx |-> AddFx(result.fx, [NoFx EXCEPT !.deriveKey = 1]),
      seal |-> result.seal]

\* salt is the outcome of crypto.randomBytes(SALT_LENGTH)
encryptWithPassword(plaintext, password, env, salt, iv) ==
  LET key == deriveKey(password, salt)
      result == encrypt(plaintext, [key |-> key], env, iv)
  IN [res |-> Ret(Obj(result.res.val.v @@ ("salt" :> Base64Encode(salt)))),
      fx |-> AddFx(result.fx, [NoFx EXCEPT !.deriveKey = 1]),
      seal |-> result.seal]

\* a test for the presence of the salt property only
HasSaltField(encObj) == encObj.t = "object" /\ "salt" \in DOMAIN encObj.v

\* encObj.salt is truthy (crypto.js:237); a string or a number has no such
\* property
HasSalt(encObj) == encObj.t = "object" /\ HasProp(encObj.v, "salt")

\* Buffer.from(encObj.salt) without the 'base64' encoding
SaltBytesUtf8(encObj) == Utf8Encode(encObj.v["salt"])

\* Buffer.from(encObj.salt, 'base64') (crypto.js:240)
SaltBytes(encObj) == Base64Decode(encObj.v["salt"])

decryptWithPassword(encObj, password, env, sealed) ==
  IF Falsy(encObj) \/ ~HasSalt(encObj)
  THEN [res |-> Throw(MsgMissingSalt), fx |-> NoFx]
  ELSE LET key == deriveKey(password, SaltBytes(encObj))
           r == decrypt(encObj, [key |-> key], env, sealed)
       IN [res |-> r.res, fx |-> AddFx(r.fx, [NoFx EXCEPT !.deriveKey = 1])]

\* ------------------------------------------------------------------------
\* Inputs
\* ------------------------------------------------------------------------
\* UTF-16 code units: 'a' and the two halves of U+1F600, which are a
\* character of four UTF-8 bytes when paired and unpaired surrogates otherwise
CodeUnits == {97, 55357, 56832}

\* all JS strings of at most MaxLen code units
Strings == UNION {[1..n -> CodeUnits] : n \in 0..MaxLen}

\* a string is well formed when every surrogate is part of a pair
RECURSIVE WellFormed(_)
WellFormed(s) ==
  IF s = <<>> THEN TRUE
  ELSE IF IsHighSurrogate(Head(s))
  THEN Len(s) >= 2 /\ IsLowSurrogate(s[2]) /\ WellFormed(Tail(Tail(s)))
  ELSE ~IsSurrogate(Head(s)) /\ WellFormed(Tail(s))

\* plaintext arguments of encrypt
PlainInputs == {Str(s) : s \in Strings} \cup {Null, Undefined}

\* 32-byte keys passed as options.key
ExplicitKeys == {RawKey([i \in 1..KEY_LENGTH |-> b]) : b \in {17, 42}}

\* {} and { key }
NoOptions == <<>>
OptionSet == {NoOptions} \cup {[key |-> k] : k \in ExplicitKeys}

\* passwords of the password based wrapper
Passwords == {<<112>>, <<113, 119>>}

\* the r-th possible outcome of crypto.randomBytes(n)
RandomBytes(n, r) == [i \in 1..n |-> (53 * r + 7 * i) % 256]

\* process.env settings
LongSecret == <<115, 51, 99, 114, 51, 116, 33, 33, 33>>
EnvSet == {<<>>, [SECRET |-> LongSecret]}

\* ------------------------------------------------------------------------
\* Records presented to decrypt: a held record, possibly altered
\* ------------------------------------------------------------------------
\* the object without property p
Without(o, p) == [q \in DOMAIN o \ {p} |-> o[q]]

\* o with some of iv, tag and ct deleted, or some of them set to ''
Shapes(o) ==
  LET F == {"iv", "tag", "ct"} \cap DOMAIN o
  IN {[q \in DOMAIN o \ D |-> o[q]] : D \in SUBSET F}
     \cup {[q \in DOMAIN o |-> IF q \in D THEN <<>> ELSE o[q]] :
             D \in SUBSET F}

\* bytes with byte i XORed with mask m
FlipByte(bytes, i, m) == [bytes EXCEPT ![i] = Xor(bytes[i], m)]

\* bit patterns flipped in one byte of the ciphertext
Masks == {1, 255}

\* the records that differ from o in bits of one byte of property p: any
\* byte of the ciphertext, the first byte of another field
Flipped(o, p) ==
  LET bytes == Base64Decode(o[p])
  IN IF p = "ct"
     THEN {[o EXCEPT ![p] = Base64Encode(FlipByte(bytes, i, m))] :
             i \in 1..Len(bytes), m \in Masks}
     ELSE {[o EXCEPT ![p] = Base64Encode(FlipByte(bytes, 1, 1))]}

\* the records whose property p decodes to one byte less or one byte more,
\* or to nothing ('!!!!' has no base64 character)
Resized(o, p) ==
  LET bytes == Base64Decode(o[p])
  IN {[o EXCEPT ![p] = Base64Encode(SubSeq(bytes, 1, Len(bytes) - 1))],
      [o EXCEPT ![p] = Base64Encode(Append(bytes, 0))],
      [o EXCEPT ![p] = <<33, 33, 33, 33>>]}

Tampered(o) ==
  Shapes(o)
  \cup UNION {Flipped(o, p) : p \in {"iv", "tag", "ct"}}
  \cup UNION {Resized(o, p) : p \in {"iv", "tag"}}
  \cup (IF "salt" \in DOMAIN o
        THEN {Without(o, "salt"), [o EXCEPT !["salt"] = <<>>]}
             \cup Flipped(o, "salt")
        ELSE {})

\* ------------------------------------------------------------------------
\* State
\* ------------------------------------------------------------------------
VARIABLES
  env,   \* process.env
  rec,   \* the record most recently produced, with how it was produced
  store  \* the documents of the 'passwords' collection, in insertion order

vars == <<env, rec, store, last>>

NoRec == [via |-> "none"]

\* the tuples authenticated by the ciphers of the records that are held
Sealed == IF rec.via = "none" THEN {} ELSE {rec.seal}

\* values passed to decrypt: while no record is held, values that are not
\* records; afterwards the held record, as it is or altered
DecryptInputs ==
  IF rec.via = "none"
  THEN {Null, Undefined, Num(0), Num(7), Obj(<<>>)}
       \cup {Str(s) : s \in Strings}
  ELSE {Obj(o) : o \in Tampered(rec.obj.v)}

\* a scenario is: configure, possibly encrypt once, decrypt once
Decrypted == last.op \in {"decrypt", "decryptWithPassword"}

Init ==
  /\ env \in EnvSet
  /\ rec = NoRec
  /\ store = <<>>
  /\ last = [op |-> "init"]

\* encrypt(plaintext, options)
Encrypt ==
  /\ last.op = "init"
  /\ \E plaintext \in PlainInputs, options \in OptionSet, r \in 1..NumRandom :
       LET e == encrypt(plaintext, options, env, RandomBytes(IV_LENGTH, r))
       IN /\ rec' = [via |-> "encrypt", plaintext |-> plaintext,
                     options |-> options, obj |-> e.res.val, seal |-> e.seal]
          /\ last' = [op |-> "encrypt", arg |-> plaintext,
                      options |-> options, res |-> e.res, fx |-> e.fx]
  /\ UNCHANGED <<env, store>>

\* encryptWithPassword(plaintext, password)
EncryptWithPassword ==
  /\ last.op = "init"
  /\ \E plaintext \in PlainInputs, password \in Passwords,
        r1 \in 1..NumRandom, r2 \in 1..NumRandom :
       LET e == encryptWithPassword(plaintext, password, env,
                                    RandomBytes(SALT_LENGTH, r1),
                                    RandomBytes(IV_LENGTH, r2))
       IN /\ rec' = [via |-> "encryptWithPassword", plaintext |-> plaintext,
                     password |-> password, obj |-> e.res.val,
                     seal |-> e.seal]
          /\ last' = [op |-> "encryptWithPassword", arg |-> plaintext,
                      password |-> password, res |-> e.res, fx |-> e.fx]
  /\ UNCHANGED <<env, store>>

\* decrypt(encObj, options)
Decrypt ==
  /\ ~Decrypted
  /\ \E encObj \in DecryptInputs, options \in OptionSet :
       LET d == decrypt(encObj, options, env, Sealed)
       IN last' = [op |-> "decrypt", arg |-> encObj, options |-> options,
                   res |-> d.res, fx |-> d.fx]
  /\ UNCHANGED <<env, rec, store>>

\* decryptWithPassword(encObj, password)
DecryptWithPassword ==
  /\ ~Decrypted
  /\ \E encObj \in DecryptInputs, password \in Passwords :
       LET d == decryptWithPassword(encObj, password, env, Sealed)
       IN last' = [op |-> "decryptWithPassword", arg |-> encObj,
                   password |-> password, res |-> d.res, fx |-> d.fx]
  /\ UNCHANGED <<env, rec, store>>

Next ==
  \/ Encrypt
  \/ EncryptWithPassword
  \/ Decrypt
  \/ DecryptWithPassword

Spec == Init /\ [][Next]_vars

\* ------------------------------------------------------------------------
\* Properties
\* ------------------------------------------------------------------------
\* the last call was decrypt(r, { key: k }) of the unaltered record
\* r = encrypt(s, { key: k }) of a string s
SameKeyDecrypt ==
  /\ last.op = "decrypt"
  /\ rec.via = "encrypt"
  /\ rec.plaintext.t = "string"
  /\ "key" \in DOMAIN rec.options
  /\ last.options = rec.options
  /\ last.arg = rec.obj

\* C1 as stated: for every string s and every 32-byte key k,
\* decrypt(encrypt(s, k), k) returns exactly s.
C1_RoundTripEveryString ==
  SameKeyDecrypt => last.res = Ret(rec.plaintext.v)

\* C1, amended: for every well-formed string s (every surrogate code unit
\* is part of a pair), the empty string and multibyte content included,
\* and every 32-byte key k, decrypt(encrypt(s, k), k) returns exactly s
\* without raising.
C1_RoundTrip ==
  (SameKeyDecrypt /\ WellFormed(rec.plaintext.v))
    => last.res = Ret(rec.plaintext.v)

\* a string with a character of four UTF-8 bytes came back
C1_Witness ==
  /\ SameKeyDecrypt
  /\ rec.plaintext.v = <<97, 55357, 56832>> \/ rec.plaintext.v = <<55357, 56832>>
  /\ last.res = Ret(rec.plaintext.v)

\* the last call was decrypt(r, { key: k2 }) of the unaltered record
\* r = encrypt(s, { key: k }) of a string s, with k2 # k
WrongKeyDecrypt ==
  /\ last.op = "decrypt"
  /\ rec.via = "encrypt"
  /\ rec.plaintext.t = "string"
  /\ "key" \in DOMAIN rec.options
  /\ "key" \in DOMAIN last.options
  /\ last.options["key"] # rec.options["key"]
  /\ last.arg = rec.obj

\* C2: for every string s, the empty string included, decrypting
\* encrypt(s, k) under a different 32-byte key ends in the decryption
\* error and never returns a string.
C2_WrongKeyFails ==
  WrongKeyDecrypt => last.res = Throw(MsgDecryptFailed)

\* the last call was decrypt, under the key of the held record, of a record
\* that differs from it only in bits of its ciphertext bytes; the held
\* record was made by encrypt from a non-empty plaintext
CiphertextFlipped ==
  /\ last.op = "decrypt"
  /\ rec.via = "encrypt"
  /\ PlainOf(rec.plaintext) # <<>>
  /\ last.options = rec.options
  /\ last.arg.t = "object"
  /\ DOMAIN last.arg.v = DOMAIN rec.obj.v
  /\ \A p \in DOMAIN rec.obj.v \ {"ct"} : last.arg.v[p] = rec.obj.v[p]
  /\ Len(Base64Decode(last.arg.v["ct"])) = Len(rec.seal.ct)
  /\ Base64Decode(last.arg.v["ct"]) # rec.seal.ct

\* C3: a record that differs from an encrypt output of a non-empty
\* plaintext only in flipped ciphertext bits makes decrypt under the same
\* key fail with the decryption error; no plaintext is returned.
C3_TamperDetected ==
  CiphertextFlipped => last.res = Throw(MsgDecryptFailed)

C3_Witness ==
  /\ CiphertextFlipped
  /\ Len(rec.seal.ct) >= 2
  /\ last.res.kind = "throw"

\* the last call was decrypt of an object whose iv, tag and ct are all
\* non-empty and whose iv does not decode to 12 bytes or whose tag does not
\* decode to 16 bytes
BadFieldLength ==
  /\ last.op = "decrypt"
  /\ last.arg.t = "object"
  /\ \A p \in {"iv", "tag", "ct"} :
       p \in DOMAIN last.arg.v /\ last.arg.v[p] # <<>>
  /\ \/ Len(Base64Decode(last.arg.v["iv"])) # 12
     \/ Len(Base64Decode(last.arg.v["tag"])) # 16

\* C4: such a record makes decrypt fail with the decryption error, and no
\* decipher is created in that call.
C4_LengthCheckedFirst ==
  BadFieldLength =>
    /\ last.res = Throw(MsgDecryptFailed)
    /\ last.fx.decipher = 0

\* a tag of 15 bytes with an iv of 12 bytes was rejected
C4_Witness ==
  /\ BadFieldLength
  /\ Len(Base64Decode(last.arg.v["iv"])) = 12
  /\ Len(Base64Decode(last.arg.v["tag"])) = 15
  /\ last.res.kind = "throw"

\* the last call was decryptWithPassword(r, p2) of the unaltered record
\* r = encryptWithPassword(s, p) of a string s
PasswordDecrypt ==
  /\ last.op = "decryptWithPassword"
  /\ rec.via = "encryptWithPassword"
  /\ rec.plaintext.t = "string"
  /\ last.arg = rec.obj

\* the salt stored in a password record is the salt its key was derived from
SaltStored ==
  rec.via = "encryptWithPassword" =>
    rec.seal.key = deriveKey(rec.password, Base64Decode(rec.obj.v["salt"]))

\* C6 as stated: for every string s and password p,
\* decryptWithPassword(encryptWithPassword(s, p), p) returns exactly s.
C6_PasswordRoundTripEveryString ==
  (PasswordDecrypt /\ last.password = rec.password)
    => last.res = Ret(rec.plaintext.v)

\* C6, amended: for every well-formed string s and every password p,
\* decryptWithPassword(encryptWithPassword(s, p), p) returns exactly s, and
\* the salt stored in the record is the salt the key was derived from.
C6_PasswordRoundTrip ==
  /\ SaltStored
  /\ (PasswordDecrypt /\ last.password = rec.password
      /\ WellFormed(rec.plaintext.v))
       => last.res = Ret(rec.plaintext.v)

C6_Witness ==
  /\ PasswordDecrypt
  /\ last.password = rec.password
  /\ rec.plaintext.v = <<97, 55357, 56832>> \/ rec.plaintext.v = <<55357, 56832>>
  /\ last.res = Ret(rec.plaintext.v)

\* C7: for every string s, the empty string included, and passwords
\* p2 # p, decryptWithPassword(encryptWithPassword(s, p), p2) fails with
\* the decryption error and never returns a string.
C7_WrongPasswordFails ==
  (PasswordDecrypt /\ last.password # rec.password)
    => last.res = Throw(MsgDecryptFailed)

\* the last call was decryptWithPassword of null, of undefined, or of a
\* value without a salt property or with an empty one
NoSaltGiven ==
  /\ last.op = "decryptWithPassword"
  /\ \/ last.arg.t \in {"null", "undefined", "string", "number"}
     \/ /\ last.arg.t = "object"
        /\ \/ "salt" \notin DOMAIN last.arg.v
           \/ last.arg.v["salt"] = <<>>

\* C8: decryptWithPassword then raises the missing-salt error, before any
\* key derivation or cipher call.
C8_MissingSalt ==
  NoSaltGiven =>
    /\ last.res = Throw(MsgMissingSalt)
    /\ last.fx.deriveKey = 0
    /\ last.fx.getKey = 0
    /\ last.fx.decipher = 0
    /\ last.fx.cipher = 0

\* a password record whose salt was emptied was refused
C8_Witness ==
  /\ NoSaltGiven
  /\ rec.via = "encryptWithPassword"
  /\ last.arg.t = "object"
  /\ "salt" \in DOMAIN last.arg.v
  /\ \A p \in {"iv", "tag", "ct"} : last.arg.v[p] = rec.obj.v[p]
  /\ last.res.kind = "throw"

\* C9: for every plain string x, every key option and every configuration,
\* decrypt(x) returns x unchanged without resolving a key, without invoking
\* the cipher and without raising.
C9_PlainStringUnchanged ==
  (last.op = "decrypt" /\ last.arg.t = "string") =>
    /\ last.res = Ret(last.arg.v)
    /\ last.fx.getKey = 0
    /\ last.fx.deriveKey = 0
    /\ last.fx.decipher = 0

\* a non-empty string was passed without a key while SECRET is configured
C9_Witness ==
  /\ last.op = "decrypt"
  /\ last.arg.t = "string"
  /\ Len(last.arg.v) = MaxLen
  /\ last.options = NoOptions
  /\ "SECRET" \in DOMAIN env
  /\ last.res.kind = "return"

\* the last call was decrypt of null, of undefined, or of an object in
\* which one of iv, tag and ct is missing or empty
AbsentOrIncomplete ==
  /\ last.op = "decrypt"
  /\ \/ last.arg.t \in {"null", "undefined"}
     \/ /\ last.arg.t = "object"
        /\ \E p \in {"iv", "tag", "ct"} :
             p \notin DOMAIN last.arg.v \/ last.arg.v[p] = <<>>

\* C10: decrypt then returns the empty string, without raising and without
\* resolving a key or invoking the cipher.
C10_EmptyOnMissing ==
  AbsentOrIncomplete =>
    /\ last.res = Ret(<<>>)
    /\ last.fx.getKey = 0
    /\ last.fx.deriveKey = 0
    /\ last.fx.decipher = 0

\* a held record whose tag alone was emptied gave ''
C10_Witness ==
  /\ AbsentOrIncomplete
  /\ last.arg.t = "object"
  /\ rec.via = "encrypt"
  /\ PlainOf(rec.plaintext) # <<>>
  /\ last.arg.v = [rec.obj.v EXCEPT !["tag"] = <<>>]
  /\ last.res = Ret(<<>>)

\* ------------------------------------------------------------------------
\* C11
\* ------------------------------------------------------------------------
\* the held record is encrypt(null, options) or encrypt(undefined, options)
AbsentPlaintext ==
  /\ rec.via = "encrypt"
  /\ rec.plaintext.t \in {"null", "undefined"}

\* C11: encrypt does not fail on null or undefined and treats it exactly as
\* the empty string: the record it returns is the one encrypt('') returns
\* for the same key and nonce, and decrypt of that record under the same
\* key returns ''.
C11_AbsentAsEmpty ==
  AbsentPlaintext =>
    /\ rec.obj = encrypt(Str(<<>>), rec.options, env, rec.seal.iv).res.val
    /\ (last.op = "encrypt" => last.res.kind = "return")
    /\ (last.op = "decrypt" /\ last.arg = rec.obj
          /\ last.options = rec.options) => last.res = Ret(<<>>)

\* the record of an absent plaintext was decrypted under the same key
C11_Witness ==
  /\ AbsentPlaintext
  /\ last.op = "decrypt"
  /\ last.arg = rec.obj
  /\ last.options = rec.options
  /\ last.res = Ret(<<>>)

\* ------------------------------------------------------------------------
\* Key resolution across process runs
\* ------------------------------------------------------------------------
\* the settings { name: v } for v in vals, and the one without the name
Setting(name, vals) == {<<>>} \cup {[n \in {name} |-> v] : v \in vals}

\* { ...f, ...g } for settings of different names
Merge(f, g) ==
  [n \in DOMAIN f \cup DOMAIN g |-> IF n \in DOMAIN f THEN f[n] ELSE g[n]]

\* values of ENCRYPTION_KEY: '', the base64 text of a 32-byte key, the same
\* text behind a character that is not base64, and the base64 texts of a
\* 3-byte and of a 33-byte buffer
KeyBytes == [i \in 1..KEY_LENGTH |-> 17]
EncryptionKeys ==
  {<<>>,
   Base64Encode(KeyBytes),
   <<33>> \o Base64Encode(KeyBytes),
   Base64Encode(<<1, 2, 3>>),
   Base64Encode(KeyBytes \o <<17>>)}

\* values of SECRET and of AUTH_SECRET: '', 7 characters, 8 characters
Secrets == {<<>>, <<115, 101, 99, 114, 101, 116, 49>>,
            <<115, 101, 99, 114, 101, 116, 49, 50>>}
AuthSecrets == {<<>>, <<97, 117, 116, 104, 107, 101, 121>>,
                <<97, 117, 116, 104, 107, 101, 121, 115>>}

\* process.env of a run
KeyEnvSet ==
  {Merge(Merge(k, sec), a) :
     k \in Setting("ENCRYPTION_KEY", EncryptionKeys),
     sec \in Setting("SECRET", Secrets),
     a \in Setting("AUTH_SECRET", AuthSecrets)}

\* the configuration of the next run: the same, or with one variable set
\* to another value or unset
Reconfigured(e) ==
  {f \in KeyEnvSet :
     Cardinality({n \in DOMAIN e \cup DOMAIN f :
                    \/ n \notin DOMAIN e
                    \/ n \notin DOMAIN f
                    \/ e[n] # f[n]}) <= 1}

\* plaintexts encrypted under the system key
KeyPlaintexts ==
  {Str(<<>>), Str(<<97>>), Str(<<55357>>), Str(<<55357, 56832>>)}

\* the first run of the process
KeyInit ==
  /\ env \in KeyEnvSet
  /\ rec = NoRec
  /\ store = <<>>
  /\ last = [op |-> "start", run |-> 1]

\* getKey(), as encrypt and decrypt call it
GetKey ==
  /\ last.op = "start"
  /\ last.run = 1
  /\ LET k == getKey(env)
     IN last' = [op |-> "getKey", run |-> last.run, res |-> Ret(k.key),
                 fx |-> k.fx]
  /\ UNCHANGED <<env, rec, store>>

\* encrypt(plaintext) in the first run; the record is persisted
EncryptInRun ==
  /\ last.op = "start"
  /\ last.run = 1
  /\ \E plaintext \in KeyPlaintexts, r \in 1..NumRandom :
       LET e == encrypt(plaintext, NoOptions, env,
                        RandomBytes(IV_LENGTH, r))
       IN /\ rec' = [via |-> "encrypt", plaintext |-> plaintext,
                     options |-> NoOptions, obj |-> e.res.val,
                     seal |-> e.seal, env |-> env]
          /\ last' = [op |-> "encrypt", run |-> last.run, arg |-> plaintext,
                      options |-> NoOptions, res |-> e.res, fx |-> e.fx]
  /\ UNCHANGED <<env, store>>

\* the process exits and a fresh one starts; nothing of crypto.js survives
\* (it keeps no state between calls), the persisted record does
Restart ==
  /\ last.op = "encrypt"
  /\ last.run = 1
  /\ env' \in Reconfigured(env)
  /\ last' = [op |-> "start", run |-> 2]
  /\ UNCHANGED <<rec, store>>

\* decrypt(record) in the later run
DecryptInRun ==
  /\ last.op = "start"
  /\ last.run = 2
  /\ LET d == decrypt(rec.obj, NoOptions, env, Sealed)
     IN last' = [op |-> "decrypt", run |-> last.run, arg |-> rec.obj,
                 options |-> NoOptions, res |-> d.res, fx |-> d.fx]
  /\ UNCHANGED <<env, rec, store>>

KeyNext ==
  \/ GetKey
  \/ EncryptInRun
  \/ Restart
  \/ DecryptInRun

SpecKey == KeyInit /\ [][KeyNext]_vars

\* ------------------------------------------------------------------------
\* C12 - C16
\* ------------------------------------------------------------------------
\* ENCRYPTION_KEY is set and base64-decodes to exactly 32 bytes
UsableKey ==
  /\ HasProp(env, "ENCRYPTION_KEY")
  /\ Len(Base64Decode(env["ENCRYPTION_KEY"])) = 32

\* C12: whenever ENCRYPTION_KEY is set and base64-decodes to exactly 32
\* bytes, getKey returns those 32 bytes whatever SECRET and AUTH_SECRET
\* are, and it derives no key and prints no warning.
C12_ConfiguredKeyReturned ==
  (last.op = "getKey" /\ UsableKey) =>
    /\ last.res = Ret(RawKey(Base64Decode(env["ENCRYPTION_KEY"])))
    /\ Len(last.res.val.bytes) = 32
    /\ last.fx.deriveKey = 0
    /\ last.fx.warn = 0

\* the configured key came back although both secrets are long enough
C12_Witness ==
  /\ last.op = "getKey"
  /\ UsableKey
  /\ "SECRET" \in DOMAIN env /\ Len(env["SECRET"]) >= 8
  /\ "AUTH_SECRET" \in DOMAIN env /\ Len(env["AUTH_SECRET"]) >= 8
  /\ last.res = Ret(RawKey(KeyBytes))

\* a character of the standard base64 alphabet
StdB64Char(c) ==
  \/ c >= 65 /\ c <= 90
  \/ c >= 97 /\ c <= 122
  \/ c >= 48 /\ c <= 57
  \/ c = 43
  \/ c = 47

\* s is well-formed base64: groups of four characters of the alphabet, the
\* last group possibly ending in one or two '='
ValidBase64(s) ==
  /\ Len(s) % 4 = 0
  /\ \A i \in 1..Len(s) :
       \/ StdB64Char(s[i])
       \/ /\ s[i] = PAD
          /\ i >= Len(s) - 1
          /\ \A j \in i..Len(s) : s[j] = PAD

\* ENCRYPTION_KEY is set but is not valid base64 or does not decode to
\* exactly 32 bytes
UnusableKey ==
  /\ "ENCRYPTION_KEY" \in DOMAIN env
  /\ \/ ~ValidBase64(env["ENCRYPTION_KEY"])
     \/ Len(Base64Decode(env["ENCRYPTION_KEY"])) # 32

\* C13 as stated: whenever ENCRYPTION_KEY is set but is not valid base64 or
\* does not decode to exactly 32 bytes, getKey returns the key of the same
\* configuration without ENCRYPTION_KEY and prints a warning.
C13_UnusableKeyIgnored ==
  (last.op = "getKey" /\ UnusableKey) =>
    /\ last.res = Ret(getKey(Without(env, "ENCRYPTION_KEY")).key)
    /\ last.fx.warn >= 1

\* SECRET or AUTH_SECRET is set to a string of at least 8 characters
LongSecretConfigured ==
  \E n \in {"SECRET", "AUTH_SECRET"} \cap DOMAIN env : Len(env[n]) >= 8

\* C14 as stated: with no usable ENCRYPTION_KEY, whenever SECRET or
\* AUTH_SECRET is set to a string of at least 8 characters getKey returns
\* the key derived from a configured secret and the deterministic salt, and
\* the insecure default key is returned only when neither is.
C14_SecretBeforeDefault ==
  (last.op = "getKey" /\ ~UsableKey) =>
    /\ LongSecretConfigured =>
         \E n \in {"SECRET", "AUTH_SECRET"} \cap DOMAIN env :
           last.res = Ret(deriveKey(env[n], DeterministicSalt))
    /\ last.res = Ret(deriveKey(FallbackSecret, FallbackSalt))
         => ~LongSecretConfigured

\* the last call was decrypt(r), in a fresh run of the process, of a record
\* r = encrypt(s) of an earlier run, the configuration being the same, with
\* no usable ENCRYPTION_KEY and a secret of at least 8 characters
LaterRunDecrypt ==
  /\ last.op = "decrypt"
  /\ last.run = 2
  /\ rec.via = "encrypt"
  /\ rec.env = env
  /\ ~UsableKey
  /\ LongSecretConfigured

\* C15 as stated: such a decrypt returns the original plaintext, for every
\* plaintext.
C15_AcrossRunsEveryString ==
  LaterRunDecrypt => last.res = Ret(rec.plaintext.v)

\* C15, amended: such a decrypt returns the original plaintext whenever the
\* plaintext is a well-formed string, and getKey yields in the later run
\* the key it yielded in the earlier one.
C15_AcrossRuns ==
  LaterRunDecrypt =>
    /\ rec.seal.key = getKey(env).key
    /\ WellFormed(rec.plaintext.v) => last.res = Ret(rec.plaintext.v)

\* a record encrypted under the key derived from SECRET was decrypted after
\* a restart
C15_Witness ==
  /\ LaterRunDecrypt
  /\ "SECRET" \in DOMAIN env /\ Len(env["SECRET"]) >= 8
  /\ rec.plaintext.v = <<55357, 56832>>
  /\ last.res = Ret(rec.plaintext.v)

\* C16: for every configuration, getKey raises no error and returns a key
\* of exactly 32 bytes.
C16_AlwaysAKey ==
  last.op = "getKey" =>
    /\ last.res.kind = "return"
    /\ KeyLen(last.res.val) = 32

\* a key came back for a malformed ENCRYPTION_KEY and secrets that are too
\* short
C16_Witness ==
  /\ last.op = "getKey"
  /\ "ENCRYPTION_KEY" \in DOMAIN env
  /\ env["ENCRYPTION_KEY"] = Base64Encode(<<1, 2, 3>>)
  /\ "SECRET" \in DOMAIN env /\ Len(env["SECRET"]) = 7
  /\ "AUTH_SECRET" \in DOMAIN env /\ Len(env["AUTH_SECRET"]) = 7
  /\ last.res.kind = "return"
  /\ KeyLen(last.res.val) = 32

\* ------------------------------------------------------------------------
\* secureCompare (crypto.js:253-272)
\* ------------------------------------------------------------------------
MsgRange == "Input buffers must have the same byte length"

\* crypto.timingSafeEqual without the comparison of the bytes
TimingSafeEqualLength(x, y) ==
  IF Len(x) # Len(y) THEN Throw(MsgRange) ELSE Ret(TRUE)

\* crypto.timingSafeEqual(x, y): a RangeError for buffers of different
\* lengths, otherwise whether every byte is the same
TimingSafeEqual(x, y) ==
  IF Len(x) # Len(y) THEN Throw(MsgRange)
  ELSE Ret(\A i \in 1..Len(x) : x[i] = y[i])

\* Buffer.alloc(32)
ZeroBuffer == [i \in 1..32 |-> 0]

\* secureCompare returning at once when the lengths differ
secureCompareRunEarly(a, b) ==
  IF a.t # "string" \/ b.t # "string"
  THEN [res |-> Ret(FALSE), calls |-> <<>>]
  ELSE LET bufA == Utf8Encode(a.v)
           bufB == Utf8Encode(b.v)
       IN IF Len(bufA) # Len(bufB)
          THEN [res |-> Ret(FALSE), calls |-> <<>>]
          ELSE [res |-> TimingSafeEqual(bufA, bufB),
                calls |-> <<[x |-> bufA, y |-> bufB]>>]

\* crypto.js:253-272: the outcome, and the arguments of the
\* crypto.timingSafeEqual calls made on the way, in order
secureCompareRun(a, b) ==
  IF a.t # "string" \/ b.t # "string"
  THEN [res |-> Ret(FALSE), calls |-> <<>>]
  ELSE LET bufA == Utf8Encode(a.v)
           bufB == Utf8Encode(b.v)
       IN IF Len(bufA) # Len(bufB)
          THEN [res |-> IF TimingSafeEqual(ZeroBuffer, ZeroBuffer).kind
                             = "throw"
                        THEN TimingSafeEqual(ZeroBuffer, ZeroBuffer)
                        ELSE Ret(FALSE),
                calls |-> <<[x |-> ZeroBuffer, y |-> ZeroBuffer]>>]
          ELSE [res |-> TimingSafeEqual(bufA, bufB),
                calls |-> <<[x |-> bufA, y |-> bufB]>>]

secureCompare(a, b) == secureCompareRun(a, b).res

\* arguments of secureCompare
CompareUnits == {97, 98, 55357, 56832}
CompareInputs ==
  {Str(s) : s \in UNION {[1..n -> CompareUnits] : n \in 0..MaxLen}}
  \cup {Null, Undefined, Num(0), Num(7), Obj(<<>>)}

CompareInit ==
  /\ env = <<>>
  /\ rec = NoRec
  /\ store = <<>>
  /\ last = [op |-> "init"]

\* secureCompare(a, b)
SecureCompare ==
  /\ last.op = "init"
  /\ \E a \in CompareInputs, b \in CompareInputs :
       last' = [op |-> "secureCompare", a |-> a, b |-> b,
                res |-> secureCompare(a, b),
                calls |-> secureCompareRun(a, b).calls]
  /\ UNCHANGED <<env, rec, store>>

CompareNext == SecureCompare

SpecCompare == CompareInit /\ [][CompareNext]_vars

\* both arguments of the last secureCompare call are strings
BothStrings ==
  /\ last.a.t = "string"
  /\ last.b.t = "string"

\* C17 as stated: secureCompare(a, b) returns true exactly when a and b are
\* both strings with identical contents, false otherwise, and never raises.
C17_TrueIffIdentical ==
  last.op = "secureCompare" =>
    /\ last.res.kind = "return"
    /\ last.res.val <=> (BothStrings /\ last.a.v = last.b.v)

\* C17, amended: secureCompare(a, b) never raises; it returns true exactly
\* when a and b are both strings with the same UTF-8 encoding and false in
\* every other case; for well-formed strings that is exactly when their
\* contents are identical.
C17_TrueIffSameEncoding ==
  last.op = "secureCompare" =>
    /\ last.res.kind = "return"
    /\ last.res.val
         <=> (BothStrings /\ Utf8Encode(last.a.v) = Utf8Encode(last.b.v))
    /\ (BothStrings /\ WellFormed(last.a.v) /\ WellFormed(last.b.v))
         => (last.res.val <=> last.a.v = last.b.v)

\* two different strings with encodings of the same length were told apart
C17_Witness ==
  /\ last.op = "secureCompare"
  /\ last.a = Str(<<97, 98>>)
  /\ last.b = Str(<<98, 97>>)
  /\ last.res = Ret(FALSE)

\* ------------------------------------------------------------------------
\* Authentication (middleware/auth.js, POST /api/auth/login of app.js)
\*
\* A JSON Web Token is [kind |-> "jwt", payload, mac, expired]: mac is the
\* secret its signature was made with, expired tells whether its exp claim
\* lies before the time of the request that presents it.  Any other text in
\* the place of a token is [kind |-> "text", v].  An Authorization header is
\* [prefix, rest]: its first seven characters and what follows them.
\* ------------------------------------------------------------------------
\* 'passop_auth_dev' (auth.js:4)
DevAuthSecret ==
  <<112, 97, 115, 115, 111, 112, 95, 97, 117, 116, 104, 95, 100, 101, 118>>

\* process.env[name] || fallback
EnvOr(e, name, fallback) == IF HasProp(e, name) THEN e[name] ELSE fallback

\* the constants of auth.js:4-6, read from process.env when it is loaded
AUTH_SECRET(e) == EnvOr(e, "AUTH_SECRET", DevAuthSecret)
AUTH_PASSWORD(e) == EnvOr(e, "AUTH_PASSWORD", <<>>)
AUTH_PASSWORD_HASH(e) == EnvOr(e, "AUTH_PASSWORD_HASH", <<>>)

\* a bcrypt hash of password s as text: '$', then the UTF-8 bytes of s
BcryptHash(s) == <<36>> \o Utf8Encode(s)

\* bcrypt.compare(s, hash) of bcryptjs: rejected unless s is a string,
\* otherwise whether hash is a bcrypt hash of s
MsgIllegal == "Illegal arguments"
BcryptCompare(s, hash) ==
  IF s.t # "string" THEN Throw(MsgIllegal)
  ELSE Ret(hash = BcryptHash(s.v))

\* jwt.sign(payload, AUTH_SECRET, { expiresIn: '12h' }) (auth.js:8-10)
sign(payload, e) ==
  [kind |-> "jwt", payload |-> payload, mac |-> AUTH_SECRET(e),
   expired |-> FALSE]

\* jwt.verify(token, secret): the payload of a token signed with this
\* secret and not expired, an error for anything else
MsgJwt == "invalid token"
JwtVerify(token, secret) ==
  IF token.kind = "jwt" /\ token.mac = secret /\ ~token.expired
  THEN Ret(token.payload)
  ELSE Throw(MsgJwt)

\* text in the place of a token, and the empty text
Text(s) == [kind |-> "text", v |-> s]
EmptyText == Text(<<>>)

\* req.headers['authorization'] || '' of a request without the header
NoHeader == [prefix |-> "", rest |-> EmptyText]
Bearer(token) == [prefix |-> "Bearer ", rest |-> token]

\* verifyToken (auth.js:12-23): 401 or next() with req.user set
verifyToken(header, e) ==
  IF header.prefix # "Bearer " \/ header.rest = EmptyText
  THEN [status |-> "401"]
  ELSE LET decoded == JwtVerify(header.rest, AUTH_SECRET(e))
       IN IF decoded.kind = "throw" THEN [status |-> "401"]
          ELSE [status |-> "next", user |-> decoded.val]

\* validatePassword without the test that AUTH_PASSWORD is set
validatePasswordUnguarded(input, e) ==
  IF AUTH_PASSWORD_HASH(e) # <<>>
  THEN BcryptCompare(OrEmpty(input), AUTH_PASSWORD_HASH(e))
  ELSE Ret(OrEmpty(input) = Str(AUTH_PASSWORD(e)))

\* validatePassword (auth.js:25-34)
validatePassword(input, e) ==
  IF AUTH_PASSWORD_HASH(e) # <<>>
  THEN BcryptCompare(OrEmpty(input), AUTH_PASSWORD_HASH(e))
  ELSE IF AUTH_PASSWORD(e) # <<>>
  THEN Ret(OrEmpty(input) = Str(AUTH_PASSWORD(e)))
  ELSE Ret(FALSE)

\* the payload of the tokens that login signs (app.js:25)
UserPayload == [role |-> "user"]

\* POST /api/auth/login (app.js:21-27): body is req.body.  When
\* validatePassword is rejected the handler ends without a response.
login(body, e) ==
  LET password == IF body.t = "object" /\ "password" \in DOMAIN body.v
                  THEN body.v["password"] ELSE Undefined
      ok == validatePassword(password, e)
  IN IF ok.kind = "throw" THEN [status |-> "none", error |-> ok.msg]
     ELSE IF ~ok.val THEN [status |-> "401"]
     ELSE [status |-> "200", token |-> sign(UserPayload, e)]

\* ------------------------------------------------------------------------
\* The credential store behind the HTTP routes
\* (controllers/passwordController.js, services/passwordService.js, app.js)
\*
\* A stored document is [id, password, ghost]: id and password are the
\* fields of the MongoDB document, ghost is history that the program does
\* not store - the tuple the cipher authenticated, the password string that
\* the request which wrote the record asked to store, and whether the
\* record was altered in the database afterwards.
\* ------------------------------------------------------------------------
\* most documents the collection holds
MaxDocs == 2

\* values of body.id
Ids == {1, 2}

\* values of body.password; undefined is a body without the field
BodyPasswords == {Undefined, Str(<<>>), Str(<<97>>)}

\* request bodies
Bodies == [id : Ids, password : BodyPasswords]

\* outcomes of crypto.randomBytes(IV_LENGTH) in the handlers
StoreNonces == {RandomBytes(IV_LENGTH, r) : r \in {1, 2}}

\* the document with the request's password stored as it came
createDocPlain(body, e, iv) ==
  [id |-> body.id,
   password |-> OrEmpty(body.password),
   ghost |-> [seal |-> encrypt(OrEmpty(body.password), NoOptions, e, iv).seal,
              plain |-> OrEmpty(body.password).v, tampered |-> FALSE]]

\* the document that create (passwordController.js:33-42) and the legacy
\* POST / (app.js:41) hand to passwordService.create
createDoc(body, e, iv) ==
  LET enc == encrypt(OrEmpty(body.password), NoOptions, e, iv)
  IN [id |-> body.id,
      password |-> enc.res.val,
      ghost |-> [seal |-> enc.seal, plain |-> OrEmpty(body.password).v,
                 tampered |-> FALSE]]

\* the position of the first document with this id, 0 when there is none:
\* the document that deleteOne({ id }) and updateOne({ id }, ...) act on
FirstWithId(items, id) ==
  LET idx == {i \in DOMAIN items : items[i].id = id}
  IN IF idx = {} THEN 0 ELSE CHOOSE i \in idx : \A j \in idx : i <= j

\* passwordService.removeById (passwordService.js:27-32)
removeById(items, id) ==
  LET k == FirstWithId(items, id)
  IN IF k = 0 THEN items
     ELSE SubSeq(items, 1, k - 1) \o SubSeq(items, k + 1, Len(items))

\* the fields that update (passwordController.js:56-64) asks to set: the
\* password only when the body has the field
updateSet(body, e, iv) ==
  IF body.password = Undefined THEN <<>>
  ELSE LET enc == encrypt(OrEmpty(body.password), NoOptions, e, iv)
       IN [password |-> enc.res.val,
           ghost |-> [seal |-> enc.seal, plain |-> OrEmpty(body.password).v,
                      tampered |-> FALSE]]

\* an update that sets the fields ct and tag inside the stored record and
\* keeps the rest of it
updateByIdFields(items, id, set) ==
  LET k == FirstWithId(items, id)
  IN IF k = 0 \/ DOMAIN set = {} THEN items
     ELSE [items EXCEPT
             ![k].password =
                Obj([@.v EXCEPT !.ct = set.password.v.ct,
                                !.tag = set.password.v.tag]),
             ![k].ghost = set.ghost]

\* passwordService.updateById (passwordService.js:34-40): $set on the first
\* document with this id, no upsert
updateById(items, id, set) ==
  LET k == FirstWithId(items, id)
  IN IF k = 0 THEN items
     ELSE [items EXCEPT ![k] = Merge(set, @)]

\* the configuration the server runs with
StoreEnv == [SECRET |-> LongSecret]

\* the documents a create request can insert, and the fields an update
\* request can set, under that configuration
NewDocs == {createDoc(b, StoreEnv, iv) : b \in Bodies, iv \in StoreNonces}
UpdateSets ==
  {updateSet([password |-> pw], StoreEnv, iv) :
     pw \in BodyPasswords, iv \in StoreNonces}

\* update requests: the password of the body with the fields it sets
UpdateRequests ==
  {[password |-> pw, set |-> updateSet([password |-> pw], StoreEnv, iv)] :
     pw \in BodyPasswords, iv \in StoreNonces}

\* Authorization headers of the requests: none, a token that login signed,
\* the same token signed with another secret
StoreHeaders ==
  {NoHeader,
   Bearer(sign(UserPayload, StoreEnv)),
   Bearer([sign(UserPayload, StoreEnv) EXCEPT !.mac = <<120>>])}

\* the tuples authenticated by the ciphers of the stored records
StoreSealed(items) == {items[i].ghost.seal : i \in DOMAIN items}

\* the outcome of a call that returns a string, as a JavaScript value
AsString(r) == IF r.kind = "throw" THEN r ELSE Ret(Str(r.val))

\* item.password && item.password.ct ? decrypt(item.password)
\*                                   : (item.password || '')
\* (passwordController.js:26, app.js:36)
ItemPassword(item, e, sealed) ==
  IF /\ ~Falsy(item.password)
     /\ item.password.t = "object"
     /\ HasProp(item.password.v, "ct")
  THEN AsString(decrypt(item.password, NoOptions, e, sealed).res)
  ELSE Ret(OrEmpty(item.password))

\* list (passwordController.js:20-29) and the legacy GET / (app.js:34-38):
\* the documents with their password replaced; an exception of decrypt
\* leaves items.map and the handler before res.json is reached
list(items, e) ==
  LET out == [i \in DOMAIN items |->
                ItemPassword(items[i], e, StoreSealed(items))]
      failing == {i \in DOMAIN items : out[i].kind = "throw"}
  IN IF failing = {}
     THEN Ret([i \in DOMAIN items |->
                 [id |-> items[i].id, password |-> out[i].val]])
     ELSE out[CHOOSE i \in failing : \A j \in failing : i <= j]

StoreInit ==
  /\ env = StoreEnv
  /\ rec = NoRec
  /\ store = <<>>
  /\ last = [op |-> "init"]

\* the header of the requests on the legacy routes, whose clients send none
LegacyHeaders == {NoHeader}

\* what the client of a handler that ended with outcome r receives:
\* res.json(r.val), or no response when the handler raised
Respond(r) ==
  IF r.kind = "return" THEN [status |-> "200", res |-> r]
  ELSE [status |-> "none", res |-> r]

\* POST /api/passwords (app.js:31, passwordController.js:31-45)
Create ==
  \E h \in StoreHeaders :
    /\ IF verifyToken(h, env).status = "401"
       THEN /\ store' = store
            /\ last' = [op |-> "create", hdr |-> h, status |-> "401"]
       ELSE /\ Len(store) < MaxDocs
            /\ \E doc \in NewDocs : store' = Append(store, doc)
            /\ last' = [op |-> "create", hdr |-> h, status |-> "200"]
    /\ UNCHANGED <<env, rec>>

\* POST / (app.js:39-43)
LegacyCreate ==
  /\ Len(store) < MaxDocs
  /\ \E h \in LegacyHeaders :
       last' = [op |-> "legacyCreate", hdr |-> h, status |-> "200"]
  /\ \E doc \in NewDocs : store' = Append(store, doc)
  /\ UNCHANGED <<env, rec>>

\* PUT /api/passwords/:id (app.js:31, passwordController.js:53-67)
Update ==
  \E h \in StoreHeaders :
    /\ IF verifyToken(h, env).status = "401"
       THEN /\ store' = store
            /\ last' = [op |-> "update", hdr |-> h, status |-> "401"]
       ELSE \E id \in Ids, u \in UpdateRequests :
              /\ store' = updateById(store, id, u.set)
              /\ last' = [op |-> "update", hdr |-> h, status |-> "200",
                          id |-> id, password |-> u.password]
    /\ UNCHANGED <<env, rec>>

\* DELETE /api/passwords/:id (app.js:31, passwordController.js:47-51)
Remove ==
  \E h \in StoreHeaders :
    /\ IF verifyToken(h, env).status = "401"
       THEN /\ store' = store
            /\ last' = [op |-> "remove", hdr |-> h, status |-> "401"]
       ELSE /\ \E id \in Ids : store' = removeById(store, id)
            /\ last' = [op |-> "remove", hdr |-> h, status |-> "200"]
    /\ UNCHANGED <<env, rec>>

\* DELETE / (app.js:44-48)
LegacyRemove ==
  /\ \E h \in LegacyHeaders :
       last' = [op |-> "legacyRemove", hdr |-> h, status |-> "200"]
  /\ \E id \in Ids : store' = removeById(store, id)
  /\ UNCHANGED <<env, rec>>

\* GET /api/passwords (app.js:31, passwordController.js:20-29); res is what
\* res.json sends, or the error the handler ends with before it sends
\* anything
List ==
  /\ LET out == Respond(list(store, env))
     IN \E h \in StoreHeaders :
          last' = IF verifyToken(h, env).status = "401"
                  THEN [op |-> "list", hdr |-> h, status |-> "401"]
                  ELSE [op |-> "list", hdr |-> h] @@ out
  /\ UNCHANGED <<env, rec, store>>

\* GET / (app.js:34-38)
LegacyList ==
  /\ LET out == Respond(list(store, env))
     IN \E h \in LegacyHeaders :
          last' = [op |-> "legacyList", hdr |-> h] @@ out
  /\ UNCHANGED <<env, rec, store>>

\* the ciphertext of one stored record is altered in the database: its
\* first byte is changed (at most one record per behaviour)
Tamper ==
  /\ \A i \in DOMAIN store : ~store[i].ghost.tampered
  /\ \E i \in DOMAIN store :
       LET o == store[i].password.v
           ct == Base64Decode(o.ct)
       IN /\ ct # <<>>
          /\ store' = [store EXCEPT
                         ![i].password =
                            Obj([o EXCEPT !.ct =
                                   Base64Encode(FlipByte(ct, 1, 1))]),
                         ![i].ghost.tampered = TRUE]
  /\ last' = [op |-> "tamper"]
  /\ UNCHANGED <<env, rec>>

StoreNext ==
  \/ Create
  \/ LegacyCreate
  \/ Update
  \/ Remove
  \/ LegacyRemove
  \/ List
  \/ LegacyList
  \/ Tamper

SpecStore == StoreInit /\ [][StoreNext]_vars

\* ------------------------------------------------------------------------
\* C18 - C20
\* ------------------------------------------------------------------------
\* the last request was a read of the credential list that reached its
\* handler
Listed == last.op \in {"list", "legacyList"} /\ "res" \in DOMAIN last

\* the stored documents whose record decrypt fails on
Unreadable ==
  {i \in DOMAIN store :
     ItemPassword(store[i], env, StoreSealed(store)).kind = "throw"}

\* C18 as stated: when the list is read and decrypt fails for a stored
\* record, the read still completes and the other records are returned
\* decrypted.
C18_ListSurvivesBadRecord ==
  (Listed /\ Unreadable # {}) =>
    /\ last.res.kind = "return"
    /\ \A i \in DOMAIN store \ Unreadable :
         last.res.val[i].password = Str(store[i].ghost.plain)

\* C19: after any sequence of create, update and delete requests on either
\* set of routes, the password field of every stored document is an object
\* with exactly the fields enc, iv, tag and ct, and - unless the document
\* was altered in the database - it is the record encrypt returns for the
\* password of the request that wrote it; it is never a string.
C19_StoredEncrypted ==
  \A i \in DOMAIN store :
    LET d == store[i]
    IN /\ d.password.t = "object"
       /\ DOMAIN d.password.v = {"enc", "iv", "tag", "ct"}
       /\ d.password.v.enc = ALGORITHM
       /\ ~d.ghost.tampered =>
            d.password = encrypt(Str(d.ghost.plain), NoOptions, env,
                                 d.ghost.seal.iv).res.val

\* two documents are stored after creates and an update, one of them with
\* a non-empty password
C19_Witness ==
  /\ last.op = "update"
  /\ Len(store) = 2
  /\ store[1].ghost.plain = <<97>>
  /\ store[2].ghost.plain = <<>>
  /\ \A i \in DOMAIN store : store[i].password.t = "object"

\* C20 as stated: a list returns every credential that was written with
\* password p (any string, the empty string included) and not altered
\* since with its password field equal to the string p.
C20_ListReturnsPassword ==
  (Listed /\ \A i \in DOMAIN store : ~store[i].ghost.tampered) =>
    /\ last.res.kind = "return"
    /\ \A i \in DOMAIN store :
         last.res.val[i].password = Str(store[i].ghost.plain)

\* ------------------------------------------------------------------------
\* C21
\* ------------------------------------------------------------------------
\* the requests on the stored credentials
CredentialRequests ==
  {"list", "create", "update", "remove",
   "legacyList", "legacyCreate", "legacyRemove"}

\* the header carries 'Bearer ' and a token that was signed with the
\* server's secret and has not expired
ValidBearer(h) ==
  /\ h.prefix = "Bearer "
  /\ h.rest.kind = "jwt"
  /\ h.rest.mac = AUTH_SECRET(env)
  /\ ~h.rest.expired

\* the last request was one on the stored credentials without a valid
\* Bearer token
Unauthenticated ==
  last.op \in CredentialRequests /\ ~ValidBearer(last.hdr)

DecodedAndVerified ==
  /\ Decrypted
  /\ last.arg.t = "object"
  /\ \A p \in {"iv", "tag", "ct"} :
       p \in DOMAIN last.arg.v /\ last.arg.v[p] # <<>>
  /\ last.op = "decryptWithPassword" =>
       ("salt" \in DOMAIN last.arg.v /\ last.arg.v["salt"] # <<>>)

\* C22: every error that decrypt or decryptWithPassword raises once it
\* decodes and verifies a record - under a wrong key or password, for an
\* altered ciphertext, tag, nonce or salt, for a nonce or a tag of the
\* wrong length - carries the one message of the decryption error.
C22_OneErrorMessage ==
  (DecodedAndVerified /\ last.res.kind = "throw")
    => last.res.msg = "Decryption failed: data may be corrupted or tampered"

\* decryptWithPassword of an unaltered record under another password
\* failed with that message
C22_Witness ==
  /\ last.op = "decryptWithPassword"
  /\ rec.via = "encryptWithPassword"
  /\ last.arg = rec.obj
  /\ last.password # rec.password
  /\ last.res = Throw(MsgDecryptFailed)

\* C23: every record encrypt returned has enc = 'aes-256-gcm', an iv that
\* decodes to 12 bytes, a tag that decodes to 16 bytes and no salt; every
\* record encryptWithPassword returned has the same and a salt that decodes
\* to 32 bytes.
C23_RecordShape ==
  rec.via # "none" =>
    LET o == rec.obj.v
    IN /\ o["enc"] = "aes-256-gcm"
       /\ Len(Base64Decode(o["iv"])) = 12
       /\ Len(Base64Decode(o["tag"])) = 16
       /\ "ct" \in DOMAIN o
       /\ ("salt" \in DOMAIN o) <=> (rec.via = "encryptWithPassword")
       /\ "salt" \in DOMAIN o => Len(Base64Decode(o["salt"])) = 32

\* a record made by encryptWithPassword is held
C23_Witness ==
  /\ rec.via = "encryptWithPassword"
  /\ last.op = "encryptWithPassword"
  /\ DOMAIN rec.obj.v = {"enc", "iv", "tag", "ct", "salt"}
  /\ Len(Base64Decode(rec.obj.v["salt"])) = 32

\* ------------------------------------------------------------------------
\* C25
\* ------------------------------------------------------------------------
\* C25: for two strings secureCompare makes exactly one
\* crypto.timingSafeEqual call before it returns - on two buffers of 32
\* zero bytes when the byte lengths of the strings differ; when an argument
\* is not a string it returns false and makes no such call.
C25_OneComparison ==
  last.op = "secureCompare" =>
    IF last.a.t = "string" /\ last.b.t = "string"
    THEN /\ Len(last.calls) = 1
         /\ Len(Utf8Encode(last.a.v)) # Len(Utf8Encode(last.b.v)) =>
              /\ last.calls[1] = [x |-> [i \in 1..32 |-> 0],
                                  y |-> [i \in 1..32 |-> 0]]
              /\ last.res = Ret(FALSE)
    ELSE last.calls = <<>> /\ last.res = Ret(FALSE)

\* strings of one and of two bytes were compared with one dummy call
C25_Witness ==
  /\ last.op = "secureCompare"
  /\ last.a = Str(<<97>>)
  /\ last.b = Str(<<97, 98>>)
  /\ Len(last.calls) = 1
  /\ last.calls[1].x = ZeroBuffer
  /\ last.res = Ret(FALSE)

\* ------------------------------------------------------------------------
\* Login and token verification (app.js:21-27, auth.js)
\*
\* env is process.env when auth.js is loaded; rec is the token the client
\* holds after a successful login.
\* ------------------------------------------------------------------------
\* process.env of the server: AUTH_PASSWORD_HASH and AUTH_PASSWORD unset,
\* empty or set (to the hash of 'p', to 'p'), AUTH_SECRET unset or set
AuthEnvSet ==
  {Merge(Merge(h, w), a) :
     h \in Setting("AUTH_PASSWORD_HASH", {<<>>, BcryptHash(<<112>>)}),
     w \in Setting("AUTH_PASSWORD", {<<>>, <<112>>}),
     a \in Setting("AUTH_SECRET", {<<115, 51, 99>>})}

\* req.body of a login request: none, {}, { password: v }
LoginBodies ==
  {Undefined, Obj(<<>>)}
  \cup {Obj([password |-> v]) :
          v \in {Null, Str(<<>>), Str(<<112>>), Str(<<113>>), Num(7)}}

\* a token signed by this server
OwnToken == sign(UserPayload, env)

\* Authorization headers of a request: none, 'Bearer ' alone or before text
\* that is no token, a token behind another prefix, a token that is
\* expired or signed with another secret, and the token the client holds
AuthHeaders ==
  {NoHeader, Bearer(EmptyText), Bearer(Text(<<120>>)),
   [prefix |-> "bearer ", rest |-> OwnToken],
   Bearer([OwnToken EXCEPT !.expired = TRUE]),
   Bearer([OwnToken EXCEPT !.mac = <<120>>])}
  \cup (IF rec.via = "login" THEN {Bearer(rec.token)} ELSE {})

AuthInit ==
  /\ env \in AuthEnvSet
  /\ rec = NoRec
  /\ store = <<>>
  /\ last = [op |-> "init"]

\* POST /api/auth/login; the client keeps the token it is sent
Login ==
  /\ \E body \in LoginBodies :
       /\ last' = [op |-> "login", body |-> body] @@ login(body, env)
       /\ rec' = IF login(body, env).status = "200"
                 THEN [via |-> "login", token |-> login(body, env).token]
                 ELSE rec
  /\ UNCHANGED <<env, store>>

\* a request passes through verifyToken
Authorize ==
  /\ \E h \in AuthHeaders :
       last' = [op |-> "verifyToken", hdr |-> h] @@ verifyToken(h, env)
  /\ UNCHANGED <<env, rec, store>>

AuthNext ==
  \/ Login
  \/ Authorize

SpecAuth == AuthInit /\ [][AuthNext]_vars

\* ------------------------------------------------------------------------
\* C26
\* ------------------------------------------------------------------------
\* neither AUTH_PASSWORD_HASH nor AUTH_PASSWORD is set to a non-empty text
NoPasswordConfigured ==
  /\ "AUTH_PASSWORD_HASH" \in DOMAIN env => env["AUTH_PASSWORD_HASH"] = <<>>
  /\ "AUTH_PASSWORD" \in DOMAIN env => env["AUTH_PASSWORD"] = <<>>

\* the password of the last login request matches the configured hash or,
\* when no hash is configured, the configured password
PasswordMatches ==
  LET given == IF last.body.t = "object" /\ "password" \in DOMAIN last.body.v
               THEN last.body.v["password"] ELSE Undefined
      text == IF given.t = "string" THEN given.v ELSE <<>>
      isText == given.t = "string" \/ Falsy(given)
  IN /\ ~NoPasswordConfigured
     /\ isText
     /\ IF "AUTH_PASSWORD_HASH" \in DOMAIN env
           /\ env["AUTH_PASSWORD_HASH"] # <<>>
        THEN env["AUTH_PASSWORD_HASH"] = BcryptHash(text)
        ELSE env["AUTH_PASSWORD"] = text

\* C26: a login request is sent a token only when the supplied password
\* matches the configured one, and then the client holds a token signed
\* with the server's secret; when neither AUTH_PASSWORD_HASH nor
\* AUTH_PASSWORD is configured every login request, with an empty or
\* missing password too, is answered 401 and sent no token.
C26_LoginGuarded ==
  /\ rec.via = "login" => ~NoPasswordConfigured
  /\ last.op = "login" =>
       /\ "token" \in DOMAIN last => (PasswordMatches /\ last.status = "200")
       /\ NoPasswordConfigured =>
            (last.status = "401" /\ "token" \notin DOMAIN last)

\* with AUTH_PASSWORD set to '' and no hash, a login with the empty
\* password was answered 401
C26_Witness ==
  /\ last.op = "login"
  /\ "AUTH_PASSWORD" \in DOMAIN env /\ env["AUTH_PASSWORD"] = <<>>
  /\ "AUTH_PASSWORD_HASH" \notin DOMAIN env
  /\ last.body = Obj([password |-> Str(<<>>)])
  /\ last.status = "401"
  /\ rec = NoRec

\* ------------------------------------------------------------------------
\* C27
\* ------------------------------------------------------------------------
\* the last request was an update that reached its handler
Updated == last.op = "update" /\ last.status = "200"

\* C27: an update request whose body has no password field leaves the
\* stored document of that id as it is; one that has the field leaves the
\* stored password equal, in all of its fields, to the record encrypt
\* returned in this request for the password of the body (or '') under the
\* nonce drawn in this request; no other document changes.
C27_UpdateReplacesRecord ==
  [][Updated' =>
       LET k == FirstWithId(store, last'.id)
       IN /\ Len(store') = Len(store)
          /\ \A i \in DOMAIN store : i # k => store'[i] = store[i]
          /\ k # 0 =>
               IF last'.password = Undefined
               THEN store'[k] = store[k]
               ELSE /\ store'[k].id = store[k].id
                    /\ store'[k].ghost.seal.iv \in StoreNonces
                    /\ store'[k].password =
                         encrypt(OrEmpty(last'.password), NoOptions, env,
                                 store'[k].ghost.seal.iv).res.val]_vars

\* an update with password 'a' reached the first of two stored documents,
\* which now holds the record of 'a' under the nonce of that request
C27_Witness ==
  /\ Updated
  /\ last.password = Str(<<97>>)
  /\ Len(store) = 2
  /\ store[1].id = last.id
  /\ store[1].ghost.plain = <<97>>
  /\ store[1].password.v["iv"] = Base64Encode(store[1].ghost.seal.iv)
  /\ store[2].id # last.id

\* ------------------------------------------------------------------------
\* Calls of the crypto functions from concurrent request contexts
\*
\* Each context makes one call.  A call is two steps: Begin runs it up to
\* and including the assignment of its local `key` (crypto.js:117, 175,
\* 222, 241), Finish runs the rest.  The steps of different calls
\* interleave in any order; Node.js, which runs each of these synchronous
\* functions to completion, produces the interleavings in which Finish
\* follows Begin at once.
\*
\* rec[c] is the call of context c: its position, arguments and local key.
\* last remembers the key most recently assigned by any call.
\* ------------------------------------------------------------------------
Contexts == {1, 2}

\* an explicit key, a plaintext
CallKey == RawKey(KeyBytes)
CallPlain == Str(<<97>>)
CallOptions == {NoOptions, [key |-> CallKey]}
CallEnvs == EnvSet

\* records made earlier, by other processes: under the system key, under
\* the explicit key, from a password
Pool ==
  LET a == encrypt(CallPlain, NoOptions, [SECRET |-> LongSecret],
                   RandomBytes(IV_LENGTH, 1))
      b == encrypt(CallPlain, [key |-> CallKey], <<>>,
                   RandomBytes(IV_LENGTH, 2))
      c == encryptWithPassword(CallPlain, <<112>>, <<>>,
                               RandomBytes(SALT_LENGTH, 1),
                               RandomBytes(IV_LENGTH, 1))
  IN {[obj |-> x.res.val, seal |-> x.seal] : x \in {a, b, c}}

\* the tuples authenticated by the ciphers that made them
PoolSealed == {p.seal : p \in Pool}

\* the calls with their arguments; r is the outcome of the call's
\* crypto.randomBytes
CryptCalls ==
  {[op |-> "encrypt", plaintext |-> CallPlain, options |-> o, r |-> r] :
     o \in CallOptions, r \in 1..NumRandom}
  \cup {[op |-> "decrypt", encObj |-> p.obj, options |-> o] :
          p \in {q \in Pool : "salt" \notin DOMAIN q.obj.v},
          o \in CallOptions}
CallInputs ==
  CryptCalls
  \cup {[op |-> "encryptWithPassword", plaintext |-> CallPlain,
         password |-> <<112>>, r |-> r] : r \in 1..NumRandom}
  \cup {[op |-> "decryptWithPassword", encObj |-> p.obj, password |-> pw] :
          p \in {q \in Pool : "salt" \in DOMAIN q.obj.v}, pw \in Passwords}

\* a system key kept from the first call that resolved one
KeyAtCallCached(options, e) ==
  IF "key" \in DOMAIN options THEN ResolveKey(options, e)
  ELSE IF last.sys # <<>> THEN [key |-> last.sys[1], fx |-> NoFx]
  ELSE ResolveKey(options, e)

\* const key = options.key || getKey() (crypto.js:117, 175)
KeyAtCall(options, e) == ResolveKey(options, e)

\* the key a call begins with, and what resolving it did
BeginKey(call, e) ==
  CASE call.op \in {"encrypt", "decrypt"} -> KeyAtCall(call.options, e)
    [] call.op = "encryptWithPassword" ->
         [key |-> deriveKey(call.password, RandomBytes(SALT_LENGTH, call.r)),
          fx |-> [NoFx EXCEPT !.deriveKey = 1]]
    [] call.op = "decryptWithPassword" ->
         [key |-> deriveKey(call.password, SaltBytes(call.encObj)),
          fx |-> [NoFx EXCEPT !.deriveKey = 1]]

\* a key held in one variable of the module that every call assigns
KeyOfShared(c) == last.key

\* the local variable `key` of the call of context c
KeyOf(c) == rec[c].key

\* the rest of a call that holds `key`
Body(call, key, e) ==
  CASE call.op = "encrypt" ->
         LET x == encrypt(call.plaintext, [key |-> key], e,
                          RandomBytes(IV_LENGTH, call.r))
         IN [res |-> x.res, fx |-> x.fx]
    [] call.op = "encryptWithPassword" ->
         LET x == encrypt(call.plaintext, [key |-> key], e,
                          RandomBytes(IV_LENGTH, call.r))
         IN [res |-> Ret(Obj(x.res.val.v @@
                           ("salt" :> Base64Encode(
                                        RandomBytes(SALT_LENGTH, call.r))))),
             fx |-> x.fx]
    [] OTHER -> decrypt(call.encObj, [key |-> key], e, PoolSealed)

Idle == [pc |-> "idle"]

CallsInit ==
  /\ env \in CallEnvs
  /\ rec = [c \in Contexts |-> Idle]
  /\ store = <<>>
  /\ last = [op |-> "init"]

\* a context calls one of the four functions
Begin(c) ==
  /\ rec[c].pc = "idle"
  /\ \E call \in CallInputs :
       LET kr == BeginKey(call, env)
       IN /\ rec' = [rec EXCEPT ![c] = [pc |-> "keyed", call |-> call,
                                        key |-> kr.key, fx |-> kr.fx]]
          /\ last' = [op |-> "begin", key |-> kr.key]
  /\ UNCHANGED <<env, store>>

\* the call of a context returns or throws; overlapped tells whether the
\* call of another context was under way
Finish(c) ==
  /\ rec[c].pc = "keyed"
  /\ LET out == Body(rec[c].call, KeyOf(c), env)
     IN rec' = [rec EXCEPT ![c] =
                  [pc |-> "done", call |-> rec[c].call, key |-> KeyOf(c),
                   res |-> out.res, fx |-> AddFx(rec[c].fx, out.fx),
                   overlapped |-> \E d \in Contexts \ {c} :
                                    rec[d].pc = "keyed"]]
  /\ UNCHANGED <<env, store, last>>

CallsNext ==
  \/ \E c \in Contexts : Begin(c)
  \/ \E c \in Contexts : Finish(c)

SpecCalls == CallsInit /\ [][CallsNext]_vars

\* ------------------------------------------------------------------------
\* C24
\* ------------------------------------------------------------------------
\* the outcome of the call when nothing else runs, under process.env e
Alone(call, e) ==
  CASE call.op = "encrypt" ->
         encrypt(call.plaintext, call.options, e,
                 RandomBytes(IV_LENGTH, call.r))
    [] call.op = "decrypt" ->
         decrypt(call.encObj, call.options, e, PoolSealed)
    [] call.op = "encryptWithPassword" ->
         encryptWithPassword(call.plaintext, call.password, e,
                             RandomBytes(SALT_LENGTH, call.r),
                             RandomBytes(IV_LENGTH, call.r))
    [] call.op = "decryptWithPassword" ->
         decryptWithPassword(call.encObj, call.password, e, PoolSealed)

\* C24: however the steps of concurrent encrypt, decrypt,
\* encryptWithPassword and decryptWithPassword calls interleave, every
\* call ends with the result (and the side effects) it has when it runs
\* alone with the same arguments, random bytes and process.env; a decrypt
\* needs no earlier call of this process.
C24_CallsIndependent ==
  \A c \in Contexts :
    rec[c].pc = "done" =>
      /\ rec[c].res = Alone(rec[c].call, env).res
      /\ rec[c].fx = Alone(rec[c].call, env).fx

\* a decrypt under the system key returned the plaintext while an encrypt
\* under another key was under way, and both have ended
C24_Witness ==
  /\ rec[1].pc = "done" /\ rec[2].pc = "done"
  /\ rec[1].overlapped
  /\ rec[1].call.op = "decrypt" /\ rec[2].call.op = "encrypt"
  /\ rec[1].key # rec[2].key
  /\ rec[1].res = Ret(CallPlain.v)
  /\ rec[2].res.kind = "return"

\* ------------------------------------------------------------------------
\* Calls under a configuration that changes
\*
\* env is process.env, which may change between two calls.  last is the
\* last call with the key its cipher ran with; last.sys remembers the key
\* that the first call without an explicit key resolved.
\* ------------------------------------------------------------------------
ConfigEnvs ==
  {<<>>,
   [SECRET |-> LongSecret],
   [SECRET |-> <<115, 101, 99, 114, 101, 116, 49, 50>>],
   [ENCRYPTION_KEY |-> Base64Encode(KeyBytes)]}

ConfigInit ==
  /\ env \in ConfigEnvs
  /\ rec = NoRec
  /\ store = <<>>
  /\ last = [op |-> "init", sys |-> <<>>]

\* encrypt(plaintext, options) or decrypt(encObj, options), to its end
Call ==
  /\ \E call \in CryptCalls :
       LET kr == KeyAtCall(call.options, env)
           out == Body(call, kr.key, env)
       IN last' = [op |-> "call", call |-> call, key |-> kr.key,
                   res |-> out.res, fx |-> AddFx(kr.fx, out.fx),
                   sys |-> IF "key" \notin DOMAIN call.options
                              /\ last.sys = <<>>
                           THEN <<kr.key>> ELSE last.sys]
  /\ UNCHANGED <<env, rec, store>>

\* process.env changes
SetEnv ==
  /\ env' \in ConfigEnvs \ {env}
  /\ last' = [op |-> "setenv", sys |-> last.sys]
  /\ UNCHANGED <<rec, store>>

ConfigNext ==
  \/ Call
  \/ SetEnv

SpecConfig == ConfigInit /\ [][ConfigNext]_vars

\* ------------------------------------------------------------------------
\* C28
\* ------------------------------------------------------------------------
\* C28: an encrypt or decrypt call without an explicit key runs its cipher
\* with the key getKey resolves from process.env as it is at that call,
\* whatever was resolved before the configuration changed, and gives the
\* result of that call alone; a call with an explicit key runs with that
\* key, does not call getKey and logs no warning.
C28_KeyOfTheCall ==
  last.op = "call" =>
    /\ last.res = Alone(last.call, env).res
    /\ IF "key" \in DOMAIN last.call.options
       THEN /\ last.key = last.call.options["key"]
            /\ last.fx.getKey = 0
            /\ last.fx.warn = 0
       ELSE /\ last.key = getKey(env).key
            /\ last.fx.getKey = 1

\* a decrypt without an explicit key returned the plaintext under a system
\* key other than the one an earlier call had resolved
C28_Witness ==
  /\ last.op = "call"
  /\ last.call.op = "decrypt"
  /\ "key" \notin DOMAIN last.call.options
  /\ last.sys # <<>>
  /\ last.sys[1] # last.key
  /\ last.key = getKey(env).key
  /\ last.res = Ret(CallPlain.v)

\* ------------------------------------------------------------------------
\* The idle timeout of the web client (App.jsx:13-39, Lock.jsx:10-29,
\* Navbar.jsx:7-10)
\*
\* rec is the client: token is the React state, stored is localStorage
\* 'passop_token', rendered is the token of the last committed render
\* ("none" before the first), listening tells whether the activity
\* listeners of the effect are attached, timerRef is timerRef.current (0
\* for null), timers maps the identifier of every pending timeout to the
\* ticks left until it is due, and idle (ghost) counts the ticks since the
\* most recent activity event or unlock while a token is held.
\*
\* Time passes in ticks, IdleTicks of them make the idle timeout.  A timeout
\* that is due runs, and a render that is scheduled commits, before the
\* next tick.
\* ------------------------------------------------------------------------
\* ticks of idleTimeout (App.jsx:18)
IdleTicks == 2

\* timeout identifiers in use at once
MaxTimers == 3

\* tokens that a login returns
ClientTokens == {"jwt1", "jwt2"}

\* the events the effect listens to (App.jsx:32)
ActivityEvents == {"mousemove", "keydown", "mousedown", "touchstart", "scroll"}

NoTimers == <<>>

\* clearTimeout(id)
clearTimeout(timers, id) == [i \in DOMAIN timers \ {id} |-> timers[i]]

\* identifiers setTimeout can return: none that is pending or still held in
\* timerRef
FreeTimerIds(r) ==
  {i \in 1..MaxTimers : i \notin DOMAIN r.timers /\ i # r.timerRef}

\* resetTimer without the clearTimeout of the pending timer
resetTimerNoClear(r) ==
  LET id == CHOOSE i \in FreeTimerIds(r) :
              \A j \in FreeTimerIds(r) : i <= j
  IN [r EXCEPT !.timers = r.timers @@ (id :> IdleTicks), !.timerRef = id]

\* resetTimer (App.jsx:24-30)
resetTimer(r) ==
  LET pending == IF r.timerRef # 0 THEN clearTimeout(r.timers, r.timerRef)
                 ELSE r.timers
      id == CHOOSE i \in FreeTimerIds(r) : \A j \in FreeTimerIds(r) : i <= j
  IN [r EXCEPT !.timers = pending @@ (id :> IdleTicks), !.timerRef = id]

\* the cleanup the effect returned (App.jsx:35-38)
cleanup(r) ==
  [r EXCEPT !.listening = FALSE,
            !.timers = IF r.timerRef # 0
                       THEN clearTimeout(r.timers, r.timerRef) ELSE r.timers]

\* the effect (App.jsx:21-34)
effect(r) ==
  IF r.token = "" THEN r ELSE resetTimer([r EXCEPT !.listening = TRUE])

IdleInit ==
  /\ env = <<>>
  /\ store = <<>>
  /\ \E t \in ClientTokens \cup {""} :
       rec = [token |-> t, stored |-> t, rendered |-> "none",
              listening |-> FALSE, timerRef |-> 0, timers |-> NoTimers,
              idle |-> 0]
  /\ last = [op |-> "init"]

\* React commits the render for the current token: the cleanup of the
\* effect of the previous render runs, then the effect
Commit ==
  /\ rec.rendered # rec.token
  /\ FreeTimerIds(rec) # {}
  /\ rec' = [effect(IF rec.listening THEN cleanup(rec) ELSE rec)
               EXCEPT !.rendered = rec.token]
  /\ last' = [op |-> "commit"]
  /\ UNCHANGED <<env, store>>

\* the login of Lock succeeds (Lock.jsx:22-23, App.jsx:44)
Unlock ==
  /\ rec.rendered = ""
  /\ rec.token = ""
  /\ \E t \in ClientTokens :
       rec' = [rec EXCEPT !.stored = t, !.token = t, !.idle = 0]
  /\ last' = [op |-> "unlock"]
  /\ UNCHANGED <<env, store>>

\* the button of Navbar, shown while the rendered token is not empty
SignOut ==
  /\ rec.rendered \in ClientTokens
  /\ rec' = [rec EXCEPT !.stored = "", !.token = "", !.idle = 0]
  /\ last' = [op |-> "signOut"]
  /\ UNCHANGED <<env, store>>

\* one of the activity events occurs; resetTimer runs when it is attached
Activity ==
  /\ FreeTimerIds(rec) # {}
  /\ \E e \in ActivityEvents : last' = [op |-> "activity", event |-> e]
  /\ rec' = [(IF rec.listening THEN resetTimer(rec) ELSE rec)
               EXCEPT !.idle = 0]
  /\ UNCHANGED <<env, store>>

\* the callback of a due timeout (App.jsx:26-29)
Fire ==
  /\ \E id \in DOMAIN rec.timers :
       /\ rec.timers[id] = 0
       /\ rec' = [rec EXCEPT !.timers = clearTimeout(rec.timers, id),
                             !.stored = "", !.token = "", !.idle = 0]
  /\ last' = [op |-> "fire"]
  /\ UNCHANGED <<env, store>>

\* one tick of time passes
Tick ==
  /\ rec.rendered = rec.token
  /\ \A id \in DOMAIN rec.timers : rec.timers[id] > 0
  /\ rec' = [rec EXCEPT
               !.timers = [id \in DOMAIN rec.timers |-> rec.timers[id] - 1],
               !.idle = IF rec.token = "" THEN 0
                        ELSE IF @ > IdleTicks THEN @ ELSE @ + 1]
  /\ last' = [op |-> "tick"]
  /\ UNCHANGED <<env, store>>

IdleNext ==
  \/ Commit
  \/ Unlock
  \/ SignOut
  \/ Activity
  \/ Fire
  \/ Tick

\* the browser runs due timeouts, React commits scheduled renders, and time
\* passes
SpecIdle ==
  /\ IdleInit
  /\ [][IdleNext]_vars
  /\ WF_vars(Commit)
  /\ WF_vars(Fire)
  /\ WF_vars(Tick)

\* ------------------------------------------------------------------------
\* C29
\* ------------------------------------------------------------------------
\* a token is held and its render is committed
Held == rec.token # "" /\ rec.rendered = rec.token

\* at most one timeout is pending; while a token is held exactly the one
\* of timerRef is, due a full idle timeout after the most recent activity
\* or unlock; once the token is cleared and that is rendered none is; the
\* timeout callback clears the token from the state and from localStorage
TimerDiscipline ==
  /\ Cardinality(DOMAIN rec.timers) <= 1
  /\ Held => /\ DOMAIN rec.timers = {rec.timerRef}
             /\ rec.timers[rec.timerRef] = IdleTicks - rec.idle
             /\ rec.stored = rec.token
  /\ (rec.token = "" /\ rec.rendered = "") => rec.timers = NoTimers
  /\ last.op = "fire" => (rec.token = "" /\ rec.stored = "")

\* C29: while a token is held, every activity event replaces the pending
\* timeout by one of the full idle timeout, so that at most one is pending
\* and it is due exactly a full idle timeout after the most recent activity
\* or unlock; when it runs the token is cleared from the state and from
\* localStorage, none is pending once the token is cleared, and a held
\* token is always followed by an activity event or by the token being
\* cleared.
C29_IdleLock ==
  /\ []TimerDiscipline
  /\ (rec.token # "") ~> (rec.token = "" \/ last.op = "activity")

\* the timeout ran a full idle timeout after an activity event had replaced
\* an earlier one: the token is cleared and nothing is pending
C29_Witness ==
  /\ last.op = "fire"
  /\ rec.token = "" /\ rec.stored = ""
  /\ rec.rendered \in ClientTokens
  /\ rec.timerRef = 2
  /\ rec.timers = NoTimers

\* ------------------------------------------------------------------------
\* The database connection (config/db.js: connect, getDb, close)
\*
\* rec is the module and the calls in flight: client and db are the module
\* variables (0 for undefined, otherwise the number of the MongoClient; the
\* handle client.db(DB_NAME) is identified with its client), created counts
\* the MongoClients constructed, call[c] is the connect() call of caller c,
\* suspended at its await or settled with an outcome, closing is the client
\* a close() call is awaiting the close of (0 for none).  Ghosts: up is the
\* set of clients whose client.connect() has resolved and that were not
\* closed, closed tells whether close() was ever called.
\* ------------------------------------------------------------------------
\* callers whose connect() calls may overlap
NumCallers == 2

\* MongoClients constructed in one run
MaxClients == 3

Callers == 1..NumCallers

MsgNotInitialized == "Database not initialized. Call connect() first."
MsgNoClient == "Cannot read properties of undefined (reading 'db')"

NoCall == [pc |-> "idle", awaits |-> 0, out |-> Ret(0)]

\* getDb (db.js:17-22)
getDb(r) == IF r.db = 0 THEN Throw(MsgNotInitialized) ELSE Ret(r.db)

DbInit ==
  /\ env = <<>>
  /\ store = <<>>
  /\ rec = [client |-> 0, db |-> 0, created |-> 0,
            call |-> [c \in Callers |-> NoCall], closing |-> 0,
            up |-> {}, closed |-> FALSE]
  /\ last = [op |-> "init"]

\* connect() up to its await (db.js:10-12)
ConnectCall(c) ==
  /\ rec.call[c].pc # "await"
  /\ rec.db = 0 => rec.created < MaxClients
  /\ rec' = IF rec.db # 0
            THEN [rec EXCEPT !.call[c] =
                    [pc |-> "settled", awaits |-> 0, out |-> Ret(rec.db)]]
            ELSE [rec EXCEPT !.created = @ + 1, !.client = rec.created + 1,
                             !.call[c] = [pc |-> "await",
                                          awaits |-> rec.created + 1,
                                          out |-> Ret(0)]]
  /\ last' = [op |-> "connect", caller |-> c]
  /\ UNCHANGED <<env, store>>

\* client.connect() has resolved and connect() resumes (db.js:13-14)
ConnectResume(c) ==
  /\ rec.call[c].pc = "await"
  /\ LET id == rec.call[c].awaits
         live == IF id = rec.closing THEN rec.up ELSE rec.up \cup {id}
     IN rec' = IF rec.client = 0
               THEN [rec EXCEPT !.up = live,
                                !.call[c] = [pc |-> "settled", awaits |-> 0,
                                             out |-> Throw(MsgNoClient)]]
               ELSE [rec EXCEPT !.up = live, !.db = rec.client,
                                !.call[c] = [pc |-> "settled", awaits |-> 0,
                                             out |-> Ret(rec.client)]]
  /\ last' = [op |-> "resume", caller |-> c]
  /\ UNCHANGED <<env, store>>

\* close() up to its await, or to its end when there is no client
\* (db.js:25-27)
CloseCall ==
  /\ rec.closing = 0
  /\ rec' = IF rec.client # 0
            THEN [rec EXCEPT !.closing = rec.client, !.closed = TRUE,
                             !.up = @ \ {rec.client}]
            ELSE [rec EXCEPT !.client = 0, !.db = 0, !.closed = TRUE]
  /\ last' = [op |-> "close"]
  /\ UNCHANGED <<env, store>>

\* client.close() has resolved and close() resumes (db.js:26-27)
CloseResume ==
  /\ rec.closing # 0
  /\ rec' = [rec EXCEPT !.closing = 0, !.client = 0, !.db = 0]
  /\ last' = [op |-> "closed"]
  /\ UNCHANGED <<env, store>>

\* a service asks for the handle
GetDb ==
  /\ last' = [op |-> "getDb", out |-> getDb(rec)]
  /\ UNCHANGED <<env, rec, store>>

DbNext ==
  \/ \E c \in Callers : ConnectCall(c)
  \/ \E c \in Callers : ConnectResume(c)
  \/ CloseCall
  \/ CloseResume
  \/ GetDb

SpecDb == DbInit /\ [][DbNext]_vars

\* ------------------------------------------------------------------------
\* C30
\* ------------------------------------------------------------------------
\* the connect() calls that resolved
Resolved == {c \in Callers : rec.call[c].pc = "settled"
                             /\ rec.call[c].out.kind = "return"}

\* C30: as long as close() is not called, however the connect() calls
\* overlap, at most one MongoClient is created and all calls that resolve
\* resolve to the same handle; getDb throws whenever the handle it would
\* return is not that of a client whose connection has completed and that
\* was not closed.
C30_SingleConnection ==
  /\ ~rec.closed =>
       /\ rec.created <= 1
       /\ \A c, d \in Resolved : rec.call[c].out = rec.call[d].out
  /\ (last.op = "getDb" /\ rec.db \notin rec.up) =>
       last.out = Throw(MsgNotInitialized)

====
